---- MODULE Spec2Model ----
(***************************************************************************)
(* Recurrence translation and batch creation of the Collaboration-Area     *)
(* event scripts:                                                          *)
(*   scripts/map_zoom_to_event_series_config.py  (Cross-System Mapper,     *)
(*                                                Date-to-Pattern Deriver) *)
(*   scripts/create_recurring_events.py          (compact-string builder,  *)
(*                                                ordinal-weekday parser)  *)
(*   scripts/create_zoom_recurring_meetings.py   (numeric-day builder,     *)
(*                                                Zoom batch creator)      *)
(*   scripts/create_events.py                    (single-event creator)    *)
(*                                                                         *)
(* Text is modelled as a sequence of one-character strings, so that        *)
(* formatting, lower-casing and regular-expression matching are computed   *)
(* character by character.  A Python dict is a function whose DOMAIN is    *)
(* the set of keys that are present.                                       *)
(***************************************************************************)
EXTENDS Integers, Sequences, FiniteSets, TLC

VARIABLES
    cal, calDow, walked, derived, weeklyOut,   \* calendar walk driving the deriver
    meeting, recDayOut, mapOut, zoomOut, rulesOut,    \* one meeting record through the translators
    pattern, endDate, parseOut,            \* one event_data through build_recurrence_rules
    meetings, index, events, eventFrom, warnings, pc, outputWritten,  \* main() of the mapper
    eventData, globalConfig, recurringOut, eventsOut,  \* one event through the payload builders
    validated,                             \* and through validate_config of the series creator
    script, config, dryRun, verbose, at, log, token, csv,
    successCount, failureCount, cpc,       \* the loop of a batch creator
    posted, reported,                      \* the POSTs of create_event and what it returned
    heap, ran, defaultPassword,            \* dicts by reference: who writes to which
    startTime, durationMinutes, computeOut, calculateOut,  \* one time of day and a duration
    template, csvRows, zoomMeetings, lookup, usage, outEvents, outFrom, gi, gpc,
    validOut                               \* main() of the events-config generator

dateVars == <<cal, calDow, walked, derived, weeklyOut>>
recVars == <<meeting, recDayOut, mapOut, zoomOut, rulesOut>>
parseVars == <<pattern, endDate, parseOut>>
batchVars == <<meetings, index, events, eventFrom, warnings, pc, outputWritten>>
payloadVars == <<eventData, globalConfig, recurringOut, eventsOut, validated>>
createVars ==
    <<script, config, dryRun, verbose, at, log, token, csv, successCount, failureCount, cpc,
      posted, reported>>
frameVars == <<heap, ran, defaultPassword>>
translatorVars == <<dateVars, recVars, parseVars, batchVars>>
creatorVars == <<payloadVars, createVars, frameVars>>
timeVars == <<startTime, durationMinutes, computeOut, calculateOut>>
genVars ==
    <<template, csvRows, zoomMeetings, lookup, usage, outEvents, outFrom, gi, gpc, validOut>>
generatorVars == <<timeVars, genVars>>
vars == <<translatorVars, creatorVars, generatorVars>>

-----------------------------------------------------------------------------
(* Bounds of the model.                                                    *)

\* records in the configuration of a batch creator
MaxRecords == 2

\* days walked forward from each anchor date
MaxWalkDays == 400
\* longest run of whitespace put between (and around) the two words of a pattern
MaxWs == 2
\* longest meetings list handed to main()
MaxMeetings == 3

-----------------------------------------------------------------------------
(* Text.                                                                   *)

UpperLetters == <<"A", "B", "C", "D", "E", "F", "G", "H", "I", "J", "K", "L", "M", "N", "O",
                  "P", "Q", "R", "S", "T", "U", "V", "W", "X", "Y", "Z">>
LowerLetters == <<"a", "b", "c", "d", "e", "f", "g", "h", "i", "j", "k", "l", "m", "n", "o",
                  "p", "q", "r", "s", "t", "u", "v", "w", "x", "y", "z">>
Digits == <<"0", "1", "2", "3", "4", "5", "6", "7", "8", "9">>

\* str.lower() on one character (ASCII letters)
LowerChar(c) ==
    IF \E i \in 1..Len(UpperLetters) : UpperLetters[i] = c
    THEN LowerLetters[CHOOSE i \in 1..Len(UpperLetters) : UpperLetters[i] = c]
    ELSE c

\* str.lower()
Lower(s) == [i \in 1..Len(s) |-> LowerChar(s[i])]

\* the characters the regular expression class \s matches (those the model uses)
Whitespace == {" ", "\t", "\n"}

IsDigit(c) == \E i \in 1..Len(Digits) : Digits[i] = c
DigitVal(c) == (CHOOSE i \in 1..Len(Digits) : Digits[i] = c) - 1
DigitChar(n) == Digits[n + 1]

AllDigits(s) == \A i \in 1..Len(s) : IsDigit(s[i])

RECURSIVE ParseNat(_)
\* int() of a non-empty run of decimal digits
ParseNat(s) ==
    IF Len(s) = 0 THEN 0
    ELSE 10 * ParseNat(SubSeq(s, 1, Len(s) - 1)) + DigitVal(s[Len(s)])

\* "%02d" and "%04d"
Fmt2(n) == <<DigitChar((n \div 10) % 10), DigitChar(n % 10)>>
Fmt4(n) == <<DigitChar((n \div 1000) % 10), DigitChar((n \div 100) % 10)>> \o Fmt2(n % 100)

\* dict.get(key, default)
Get(d, k, dflt) == IF k \in DOMAIN d THEN d[k] ELSE dflt

\* a dict with at most one key: absent, or one of the values of S
Opt(k, S) == {<<>>} \cup {k :> v : v \in S}

-----------------------------------------------------------------------------
(* The calendar (Python's calendar and datetime modules).                  *)

IsLeap(y) == y % 4 = 0 /\ (y % 100 /= 0 \/ y % 400 = 0)

\* calendar.monthrange(year, month)[1]
MonthDays(y, m) ==
    IF m = 2 THEN (IF IsLeap(y) THEN 29 ELSE 28)
    ELSE IF m \in {4, 6, 9, 11} THEN 30 ELSE 31

RECURSIVE DaysBeforeMonth(_, _)
DaysBeforeMonth(y, m) == IF m = 1 THEN 0 ELSE DaysBeforeMonth(y, m - 1) + MonthDays(y, m - 1)

\* date.toordinal(): 0001-01-01 is day 1
ToOrdinal(y, m, d) ==
    (y - 1) * 365 + ((y - 1) \div 4) - ((y - 1) \div 100) + ((y - 1) \div 400)
        + DaysBeforeMonth(y, m) + d

\* date.weekday(): Monday = 0 .. Sunday = 6
Weekday(y, m, d) == (ToOrdinal(y, m, d) + 6) % 7

\* strftime("%A"), indexed by date.weekday() + 1
DayNames == << <<"M", "o", "n", "d", "a", "y">>, <<"T", "u", "e", "s", "d", "a", "y">>, <<"W",
                                                  "e", "d", "n", "e", "s", "d", "a",
                                                  "y">>, <<"T", "h", "u", "r", "s", "d", "a", "y">>,
               <<"F", "r", "i", "d", "a", "y">>, <<"S", "a", "t", "u", "r", "d", "a",
                                                  "y">>, <<"S", "u", "n", "d", "a", "y">> >>

\* What a call gives back: the value it returns, or the exception it raises.
Ok(v) == [ok |-> TRUE, val |-> <<v>>, exc |-> "none"]
Raise(e) == [ok |-> FALSE, val |-> <<>>, exc |-> e]
Val(r) == r.val[1]

\* Optional[...]: None is the empty sequence, a value v is <<v>>
None == <<>>
Some(v) == <<v>>

\* datetime.strptime(text, "%Y-%m-%d").date(): four digits, "-", one or two digits,
\* "-", one or two digits, and the three numbers a date of the calendar
strptime_date(text) ==
    LET n == Len(text)
        dash2 == IF n >= 7 /\ text[7] = "-" THEN 7 ELSE 8
        wellFormed ==
            /\ n \in 8..10
            /\ AllDigits(SubSeq(text, 1, 4))
            /\ text[5] = "-"
            /\ dash2 < n
            /\ text[dash2] = "-"
            /\ AllDigits(SubSeq(text, 6, dash2 - 1))
            /\ n - dash2 \in 1..2
            /\ AllDigits(SubSeq(text, dash2 + 1, n))
        y == ParseNat(SubSeq(text, 1, 4))
        m == ParseNat(SubSeq(text, 6, dash2 - 1))
        d == ParseNat(SubSeq(text, dash2 + 1, n))
    IN  IF wellFormed /\ y >= 1 /\ m \in 1..12 /\ d \in 1..MonthDays(y, m)
        THEN Ok([y |-> y, m |-> m, d |-> d])
        ELSE Raise("ValueError")

\* date.isoformat(): the text of a date, "YYYY-MM-DD"
IsoDate(y, m, d) == Fmt4(y) \o <<"-">> \o Fmt2(m) \o <<"-">> \o Fmt2(d)

-----------------------------------------------------------------------------
(* map_zoom_to_event_series_config.py: the tables and the deriver.         *)

POSITION_MAP ==
    (1 :> <<"f", "i", "r", "s", "t">>) @@ (2 :> <<"s", "e", "c", "o", "n",
                                                  "d">>) @@ (3 :> <<"t", "h", "i", "r",
                                                  "d">>) @@ (4 :> <<"f", "o", "u", "r", "t", "h">>)
        @@ (-1 :> <<"l", "a", "s", "t">>)

\* WEEKDAY_MAP with one name misspelt
WEEKDAY_MAP_misspelt ==
    (1 :> <<"S", "u", "n", "d", "a", "y">>) @@ (2 :> <<"M", "o", "n", "d", "a",
                                                  "y">>) @@ (3 :> <<"T", "u", "e", "s", "d",
                                                  "a", "y">>) @@ (4 :> <<"W", "e", "d", "e",
                                                  "n", "s", "d", "a", "y">>)
        @@ (5 :> <<"T", "h", "u", "r", "s", "d", "a", "y">>) @@ (6 :> <<"F", "r", "i", "d", "a",
                                                  "y">>) @@ (7 :> <<"S", "a", "t", "u", "r",
                                                  "d", "a", "y">>)

WEEKDAY_MAP ==
    (1 :> <<"S", "u", "n", "d", "a", "y">>) @@ (2 :> <<"M", "o", "n", "d", "a",
                                                  "y">>) @@ (3 :> <<"T", "u", "e", "s", "d",
                                                  "a", "y">>) @@ (4 :> <<"W", "e", "d", "n",
                                                  "e", "s", "d", "a", "y">>)
        @@ (5 :> <<"T", "h", "u", "r", "s", "d", "a", "y">>) @@ (6 :> <<"F", "r", "i", "d", "a",
                                                  "y">>) @@ (7 :> <<"S", "a", "t", "u", "r",
                                                  "d", "a", "y">>)

\* is_last_weekday_of_month with ">=" for ">"
is_last_weekday_of_month_ge(date_obj) ==
    (date_obj.d + 7) >= MonthDays(date_obj.y, date_obj.m)

is_last_weekday_of_month(date_obj) ==
    (date_obj.d + 7) > MonthDays(date_obj.y, date_obj.m)

\* derived_position that takes the week number first, and "last" for a fifth week
derived_position_fifth_week_is_last(date_obj) ==
    LET week_num == ((date_obj.d - 1) \div 7) + 1
    IN  Get(POSITION_MAP, week_num, <<"l", "a", "s", "t">>)

\* the position word of the deriver
derived_position(date_obj) ==
    IF is_last_weekday_of_month(date_obj)
    THEN <<"l", "a", "s", "t">>
    ELSE LET week_num == ((date_obj.d - 1) \div 7) + 1
         IN  Get(POSITION_MAP, week_num, <<"f", "i", "r", "s", "t">>)

recurrence_day_from_start_date(start_date) ==
    LET parsed == strptime_date(start_date)
    IN  IF ~parsed.ok THEN parsed
        ELSE LET date_obj == Val(parsed)
                 weekday_name == DayNames[Weekday(date_obj.y, date_obj.m, date_obj.d) + 1]
             IN  Ok(derived_position(date_obj) \o <<" ">> \o weekday_name)

S_monthly == <<"m", "o", "n", "t", "h", "l", "y">>
S_unsupported == <<"u", "n", "s", "u", "p", "p", "o", "r", "t", "e", "d", " ", "r", "e", "c",
                   "u", "r", "r", "e", "n", "c", "e", "_", "t", "y", "p", "e", "=", "'">>
S_derived_warning ==
    <<"m", "o", "n", "t", "h", "l", "y", " ", "p", "a", "t", "t", "e", "r", "n", " ", "m", "i",
      "s", "s", "i", "n", "g", " ", "m", "o", "n", "t", "h", "l", "y", "_", "w", "e", "e", "k",
      "/", "m", "o", "n", "t", "h", "l", "y", "_", "w", "e", "e", "k", "_", "d", "a", "y", ";",
      " ", "d", "e", "r", "i", "v", "e", "d", " ", "r", "e", "c", "u", "r", "r", "e", "n", "c",
      "e", "_", "d", "a", "y", " ", "f", "r", "o", "m", " ", "s", "t", "a", "r", "t", "_", "d",
      "a", "t", "e">>
S_missing == <<"m", "i", "s", "s", "i", "n", "g", " ", "m", "o", "n", "t", "h", "l", "y", "_",
               "w", "e", "e", "k", "/", "m", "o", "n", "t", "h", "l", "y", "_", "w", "e", "e",
               "k", "_", "d", "a", "y", " ", "a", "n", "d", " ", "s", "t", "a", "r", "t", "_",
               "d", "a", "t", "e">>

\* map_recurrence_day that looks at start_date before the explicit fields
map_recurrence_day_date_first(m) ==
    LET recurrence_type == Lower(Get(m, "recurrence_type", S_monthly))
    IN  IF recurrence_type /= S_monthly
        THEN Ok([day |-> None, warning |-> Some(S_unsupported \o recurrence_type \o <<"'">>)])
        ELSE IF "start_date" \in DOMAIN m
        THEN LET d == recurrence_day_from_start_date(m.start_date)
             IN  IF ~d.ok THEN d
                 ELSE Ok([day |-> Some(Val(d)), warning |-> Some(S_derived_warning)])
        ELSE IF /\ "monthly_week" \in DOMAIN m
                /\ m.monthly_week \in DOMAIN POSITION_MAP
                /\ "monthly_week_day" \in DOMAIN m
                /\ m.monthly_week_day \in DOMAIN WEEKDAY_MAP
        THEN Ok([day |-> Some(POSITION_MAP[m.monthly_week] \o <<" ">>
                                \o WEEKDAY_MAP[m.monthly_week_day]),
                 warning |-> None])
        ELSE Ok([day |-> None, warning |-> Some(S_missing)])

\* map_recurrence_day without .lower() on recurrence_type
map_recurrence_day_no_lower(m) ==
    LET recurrence_type == Get(m, "recurrence_type", S_monthly)
    IN  IF recurrence_type /= S_monthly
        THEN Ok([day |-> None, warning |-> Some(S_unsupported \o recurrence_type \o <<"'">>)])
        ELSE IF /\ "monthly_week" \in DOMAIN m
                /\ m.monthly_week \in DOMAIN POSITION_MAP
                /\ "monthly_week_day" \in DOMAIN m
                /\ m.monthly_week_day \in DOMAIN WEEKDAY_MAP
        THEN Ok([day |-> Some(POSITION_MAP[m.monthly_week] \o <<" ">>
                                \o WEEKDAY_MAP[m.monthly_week_day]),
                 warning |-> None])
        ELSE IF "start_date" \in DOMAIN m
        THEN LET d == recurrence_day_from_start_date(m.start_date)
             IN  IF ~d.ok THEN d
                 ELSE Ok([day |-> Some(Val(d)), warning |-> Some(S_derived_warning)])
        ELSE Ok([day |-> None, warning |-> Some(S_missing)])

\* returns the pair (recurrence_day, warning), each a string or None
map_recurrence_day(m) ==
    LET recurrence_type == Lower(Get(m, "recurrence_type", S_monthly))
    IN  IF recurrence_type /= S_monthly
        THEN Ok([day |-> None, warning |-> Some(S_unsupported \o recurrence_type \o <<"'">>)])
        ELSE IF /\ "monthly_week" \in DOMAIN m
                /\ m.monthly_week \in DOMAIN POSITION_MAP
                /\ "monthly_week_day" \in DOMAIN m
                /\ m.monthly_week_day \in DOMAIN WEEKDAY_MAP
        THEN Ok([day |-> Some(POSITION_MAP[m.monthly_week] \o <<" ">>
                                \o WEEKDAY_MAP[m.monthly_week_day]),
                 warning |-> None])
        ELSE IF "start_date" \in DOMAIN m
        THEN LET d == recurrence_day_from_start_date(m.start_date)
             IN  IF ~d.ok THEN d
                 ELSE Ok([day |-> Some(Val(d)), warning |-> Some(S_derived_warning)])
        ELSE Ok([day |-> None, warning |-> Some(S_missing)])

\* A JSON number or a JSON string in the place of a number.
Num(n) == [isText |-> FALSE, n |-> n, text |-> <<>>]
Text(t) == [isText |-> TRUE, n |-> 0, text |-> t]

\* int(x): a number as it is, a string of decimal digits parsed, anything else ValueError
int(x) ==
    IF ~x.isText THEN Ok(x.n)
    ELSE IF Len(x.text) > 0 /\ AllDigits(x.text) THEN Ok(ParseNat(x.text))
    ELSE Raise("ValueError")

\* datetime.strptime(text, "%H:%M:%S"): three runs of one or two digits between ":"
strptime_time(text) ==
    LET n == Len(text)
        colons == {i \in 1..n : text[i] = ":"}
        c1 == CHOOSE i \in colons : \A j \in colons : i <= j
        c2 == CHOOSE i \in colons : \A j \in colons : i >= j
        hh == SubSeq(text, 1, c1 - 1)
        mm == SubSeq(text, c1 + 1, c2 - 1)
        ss == SubSeq(text, c2 + 1, n)
        wellFormed ==
            /\ Cardinality(colons) = 2
            /\ \A p \in {hh, mm, ss} : Len(p) \in 1..2 /\ AllDigits(p)
    IN  IF wellFormed /\ ParseNat(hh) <= 23 /\ ParseNat(mm) <= 59 /\ ParseNat(ss) <= 59
        THEN Ok([h |-> ParseNat(hh), m |-> ParseNat(mm), s |-> ParseNat(ss)])
        ELSE Raise("ValueError")

\* strftime("%H:%M:%S") of the time of day that is `secs` seconds after midnight
strftime_time(secs) ==
    Fmt2(secs \div 3600) \o <<":">> \o Fmt2((secs \div 60) % 60) \o <<":">> \o Fmt2(secs % 60)

compute_end_time(start_time, duration_minutes) ==
    LET start_dt == strptime_time(start_time)
    IN  IF ~start_dt.ok THEN start_dt
        ELSE LET t == Val(start_dt)
                 end_secs == t.h * 3600 + t.m * 60 + t.s + 60 * duration_minutes
             IN  Ok(strftime_time(end_secs % 86400))

S_default_start_time == <<"0", "0", ":", "0", "0", ":", "0", "0">>
S_untitled_event == <<"U", "n", "t", "i", "t", "l", "e", "d", " ", "E", "v", "e", "n", "t">>
S_MONTHLY == <<"M", "O", "N", "T", "H", "L", "Y">>
S_venue == <<"V", "i", "r", "t", "u", "a", "l", " ", "-", " ", "Z", "o", "o", "m">>
S_categories == << <<"C", "o", "l", "l", "a", "b", "o", "r", "a", "t", "i", "o", "n", " ", "A",
                     "r", "e", "a">>, <<"Z", "o", "o", "m", " ", "M", "e", "e", "t", "i", "n",
                     "g">> >>
DefaultDuration == 60

\* returns the pair (event, warning): the event is None when the meeting is skipped
map_meeting_to_event(m, default_timezone) ==
    LET rd == map_recurrence_day(m)
    IN  IF ~rd.ok THEN rd
        ELSE IF Val(rd).day = None
        THEN Ok([event |-> None, warning |-> Val(rd).warning])
        ELSE
        LET start_time == Get(m, "start_time", S_default_start_time)
            duration == int(Get(m, "duration", Num(DefaultDuration)))
        IN  IF ~duration.ok THEN duration
            ELSE
            LET end_time == compute_end_time(start_time, Val(duration))
            IN  IF ~end_time.ok THEN end_time
                ELSE Ok([event |-> Some(
                            [title |-> Get(m, "topic", S_untitled_event),
                             description |-> Get(m, "agenda", <<>>),
                             start_date |-> Get(m, "start_date", <<>>),
                             end_date |-> Get(m, "end_date", Get(m, "start_date", <<>>)),
                             start_time |-> start_time,
                             end_time |-> Val(end_time),
                             recurrence_pattern |-> S_MONTHLY,
                             recurrence_day |-> Val(rd).day[1],
                             venue |-> S_venue,
                             organizer |-> Get(m, "host_email", <<>>),
                             categories |-> S_categories,
                             timezone |-> Get(m, "timezone", default_timezone)]),
                         warning |-> Val(rd).warning])

-----------------------------------------------------------------------------
(* create_zoom_recurring_meetings.py: the meeting-platform recurrence.     *)

S_weekly == <<"w", "e", "e", "k", "l", "y">>
S_daily == <<"d", "a", "i", "l", "y">>
S_midnightZ == <<"T", "0", "0", ":", "0", "0", ":", "0", "0", "Z">>
DefaultRepeatInterval == 1

\* datetime.fromisoformat(text) of a date-only text: exactly YYYY-MM-DD
fromisoformat(text) ==
    LET wellFormed ==
            /\ Len(text) = 10
            /\ text[5] = "-" /\ text[8] = "-"
            /\ AllDigits(SubSeq(text, 1, 4))
            /\ AllDigits(SubSeq(text, 6, 7))
            /\ AllDigits(SubSeq(text, 9, 10))
        y == ParseNat(SubSeq(text, 1, 4))
        m == ParseNat(SubSeq(text, 6, 7))
        d == ParseNat(SubSeq(text, 9, 10))
    IN  IF wellFormed /\ y >= 1 /\ m \in 1..12 /\ d \in 1..MonthDays(y, m)
        THEN Ok([y |-> y, m |-> m, d |-> d])
        ELSE Raise("ValueError")

\* meeting_config["start_date"] handed to fromisoformat: KeyError when the key is absent
start_date_of(mc) ==
    IF "start_date" \in DOMAIN mc THEN fromisoformat(mc.start_date) ELSE Raise("KeyError")

\* recurrence_weekly with "<= 6" for "< 6": Sunday becomes 8
recurrence_weekly_sunday_is_8(mc, base) ==
    IF "weekly_days" \in DOMAIN mc
    THEN Ok(("type" :> 2) @@ ("weekly_days" :> mc.weekly_days) @@ base)
    ELSE LET start_date == start_date_of(mc)
         IN  IF ~start_date.ok THEN start_date
             ELSE LET sd == Val(start_date)
                      python_weekday == Weekday(sd.y, sd.m, sd.d)
                      zoom_weekday == IF python_weekday <= 6 THEN python_weekday + 2 ELSE 1
                  IN  Ok(("type" :> 2) @@ ("weekly_days" :> <<DigitChar(zoom_weekday)>>) @@ base)

\* the weekly branch: type 2 and weekly_days
recurrence_weekly(mc, base) ==
    IF "weekly_days" \in DOMAIN mc
    THEN Ok(("type" :> 2) @@ ("weekly_days" :> mc.weekly_days) @@ base)
    ELSE LET start_date == start_date_of(mc)
         IN  IF ~start_date.ok THEN start_date
             ELSE LET sd == Val(start_date)
                      python_weekday == Weekday(sd.y, sd.m, sd.d)
                      zoom_weekday == IF python_weekday < 6 THEN python_weekday + 2 ELSE 1
                  IN  Ok(("type" :> 2) @@ ("weekly_days" :> <<DigitChar(zoom_weekday)>>) @@ base)

\* recurrence_monthly that copies monthly_day whenever the record has one
recurrence_monthly_keeps_day(mc, base) ==
    LET day == IF "monthly_day" \in DOMAIN mc THEN "monthly_day" :> mc.monthly_day ELSE <<>>
    IN  IF "monthly_week" \in DOMAIN mc /\ "monthly_week_day" \in DOMAIN mc
        THEN Ok(("type" :> 3) @@ ("monthly_week" :> mc.monthly_week)
                    @@ ("monthly_week_day" :> mc.monthly_week_day) @@ day @@ base)
        ELSE IF "monthly_day" \in DOMAIN mc
        THEN Ok(("type" :> 3) @@ day @@ base)
        ELSE LET start_date == start_date_of(mc)
             IN  IF ~start_date.ok THEN start_date
                 ELSE Ok(("type" :> 3) @@ ("monthly_day" :> Val(start_date).d) @@ base)

\* the monthly branch: type 3 and either monthly_week + monthly_week_day or monthly_day
recurrence_monthly(mc, base) ==
    IF "monthly_week" \in DOMAIN mc /\ "monthly_week_day" \in DOMAIN mc
    THEN Ok([k \in (DOMAIN base \cup {"type", "monthly_week", "monthly_week_day"})
                    \ {"monthly_day"} |->
                IF k = "type" THEN 3
                ELSE IF k = "monthly_week" THEN mc.monthly_week
                ELSE IF k = "monthly_week_day" THEN mc.monthly_week_day
                ELSE base[k]])
    ELSE IF "monthly_day" \in DOMAIN mc
    THEN Ok(("type" :> 3) @@ ("monthly_day" :> mc.monthly_day) @@ base)
    ELSE LET start_date == start_date_of(mc)
         IN  IF ~start_date.ok THEN start_date
             ELSE Ok(("type" :> 3) @@ ("monthly_day" :> Val(start_date).d) @@ base)

\* recurrence_end that looks at occurrences before end_date
recurrence_end_occurrences_first(mc, recurrence) ==
    IF "occurrences" \in DOMAIN mc
    THEN Ok(("end_times" :> mc.occurrences) @@ recurrence)
    ELSE IF "end_date" \in DOMAIN mc
    THEN LET end_date == fromisoformat(mc.end_date)
         IN  IF ~end_date.ok THEN end_date
             ELSE LET e == Val(end_date)
                  IN  Ok(("end_date_time" :> (IsoDate(e.y, e.m, e.d) \o S_midnightZ))
                            @@ recurrence)
    ELSE Ok(recurrence)

\* the end of the series: end_date_time from end_date, else end_times from occurrences
recurrence_end(mc, recurrence) ==
    IF "end_date" \in DOMAIN mc
    THEN LET end_date == fromisoformat(mc.end_date)
         IN  IF ~end_date.ok THEN end_date
             ELSE LET e == Val(end_date)
                  IN  Ok(("end_date_time" :> (IsoDate(e.y, e.m, e.d) \o S_midnightZ))
                            @@ recurrence)
    ELSE IF "occurrences" \in DOMAIN mc
    THEN Ok(("end_times" :> mc.occurrences) @@ recurrence)
    ELSE Ok(recurrence)

\* parse_recurrence_config with the mapper's default type, "monthly"
parse_recurrence_config_monthly_by_default(mc) ==
    LET base == ("type" :> 1)
                    @@ ("repeat_interval" :> Get(mc, "repeat_interval", DefaultRepeatInterval))
        recurrence_type == Lower(Get(mc, "recurrence_type", S_monthly))
        typed == IF recurrence_type = S_daily THEN Ok(base)
                 ELSE IF recurrence_type = S_weekly THEN recurrence_weekly(mc, base)
                 ELSE IF recurrence_type = S_monthly THEN recurrence_monthly(mc, base)
                 ELSE Ok(base)
    IN  IF ~typed.ok THEN typed ELSE recurrence_end(mc, Val(typed))

\* the recurrence object of a meeting: type 1, 2 or 3 and the fields of that type
parse_recurrence_config(mc) ==
    LET base == ("type" :> 1)
                    @@ ("repeat_interval" :> Get(mc, "repeat_interval", DefaultRepeatInterval))
        recurrence_type == Lower(Get(mc, "recurrence_type", S_weekly))
        typed == IF recurrence_type = S_daily THEN Ok(base)
                 ELSE IF recurrence_type = S_weekly THEN recurrence_weekly(mc, base)
                 ELSE IF recurrence_type = S_monthly THEN recurrence_monthly(mc, base)
                 ELSE Ok(base)
    IN  IF ~typed.ok THEN typed ELSE recurrence_end(mc, Val(typed))

-----------------------------------------------------------------------------
(* create_recurring_events.py: the compact-string builder and its parser.  *)

S_first_Monday == <<"f", "i", "r", "s", "t", " ", "M", "o", "n", "d", "a", "y">>
S_every_month == <<"e", "v", "e", "r", "y", "-", "m", "o", "n", "t", "h">>
S_On == <<"O", "n">>
S_never == <<"n", "e", "v", "e", "r">>

\* the alternatives of the two groups of the regular expression
OrdinalWords == { <<"f", "i", "r", "s", "t">>, <<"s", "e", "c", "o", "n", "d">>, <<"t", "h",
                                                  "i", "r", "d">>, <<"f", "o", "u", "r", "t",
                                                  "h">>, <<"l", "a", "s", "t">> }
WeekdayWords == { <<"m", "o", "n", "d", "a", "y">>, <<"t", "u", "e", "s", "d", "a",
                                                  "y">>, <<"w", "e", "d", "n", "e", "s", "d",
                                                  "a", "y">>, <<"t", "h", "u", "r", "s", "d",
                                                  "a", "y">>, <<"f", "r", "i", "d", "a", "y">>,
                  <<"s", "a", "t", "u", "r", "d", "a", "y">>, <<"s", "u", "n", "d", "a", "y">> }

\* re.match(r'^(first|...|last)\s+(monday|...|sunday)$', text, re.IGNORECASE):
\* the set of (group 1, group 2) of the matches.  "$" matches at the end of the text
\* and also just before a newline that ends the text.
re_match(text) ==
    LET n == Len(text)
        ends1 == {Len(o) : o \in OrdinalWords} \cap (1..n)
        ends2 == {n - 1, n} \cap (1..n)
        starts2(e) == {e - Len(w) + 1 : w \in WeekdayWords} \cap (1..n)
        spans == { t \in ends1 \X (1..n) \X ends2 :
                     /\ t[2] \in starts2(t[3])
                     /\ Lower(SubSeq(text, 1, t[1])) \in OrdinalWords
                     /\ t[2] > t[1] + 1
                     /\ \A k \in (t[1] + 1)..(t[2] - 1) : text[k] \in Whitespace
                     /\ Lower(SubSeq(text, t[2], t[3])) \in WeekdayWords
                     /\ \/ t[3] = n
                        \/ t[3] = n - 1 /\ text[n] = "\n" }
    IN  { <<SubSeq(text, 1, t[1]), SubSeq(text, t[2], t[3])>> : t \in spans }

\* build_recurrence_rules whose "on" is the lower-cased text as it was matched
build_recurrence_rules_keeps_spacing(event_data) ==
    LET recurrence_day == Get(event_data, "recurrence_day", S_first_Monday)
        matches == re_match(recurrence_day)
    IN  IF matches = {} THEN Raise("ValueError")
        ELSE
        LET on_value == Lower(recurrence_day)
            end_date == Get(event_data, "end_date", <<>>)
            rule == ("type" :> S_every_month) @@ ("on" :> on_value)
        IN  Ok([rules |-> <<
                IF end_date /= <<>>
                THEN rule @@ ("end_type" :> S_On) @@ ("end" :> end_date)
                ELSE rule @@ ("end_type" :> S_never) >>])

\* build_recurrence_rules that tests the presence of "end_date", not its truth
build_recurrence_rules_end_if_present(event_data) ==
    LET recurrence_day == Get(event_data, "recurrence_day", S_first_Monday)
        matches == re_match(recurrence_day)
    IN  IF matches = {} THEN Raise("ValueError")
        ELSE
        LET match == CHOOSE g \in matches : TRUE
            on_value == Lower(match[1]) \o <<" ">> \o Lower(match[2])
            rule == ("type" :> S_every_month) @@ ("on" :> on_value)
        IN  Ok([rules |-> <<
                IF "end_date" \in DOMAIN event_data
                THEN rule @@ ("end_type" :> S_On) @@ ("end" :> event_data["end_date"])
                ELSE rule @@ ("end_type" :> S_never) >>])

build_recurrence_rules(event_data) ==
    LET recurrence_day == Get(event_data, "recurrence_day", S_first_Monday)
        matches == re_match(recurrence_day)
    IN  IF matches = {} THEN Raise("ValueError")
        ELSE
        LET match == CHOOSE g \in matches : TRUE
            position == Lower(match[1])
            day_of_week == Lower(match[2])
            on_value == position \o <<" ">> \o day_of_week
            end_date == Get(event_data, "end_date", <<>>)
            rule == ("type" :> S_every_month) @@ ("on" :> on_value)
        IN  Ok([rules |-> <<
                IF end_date /= <<>>
                THEN rule @@ ("end_type" :> S_On) @@ ("end" :> end_date)
                ELSE rule @@ ("end_type" :> S_never) >>])

-----------------------------------------------------------------------------
(* create_zoom_recurring_meetings.py: the payload and the API client.      *)

ZoomDefaultDuration == 60
S_UTC == <<"U", "T", "C">>
S_both == <<"b", "o", "t", "h">>
S_none == <<"n", "o", "n", "e">>

build_meeting_payload(meeting_config) ==
    IF ~({"start_date", "start_time", "topic"} \subseteq DOMAIN meeting_config)
    THEN Raise("KeyError")
    ELSE
    LET start_datetime ==
            meeting_config["start_date"] \o <<"T">> \o meeting_config["start_time"]
        recurrence == parse_recurrence_config(meeting_config)
        enable_registration == Get(meeting_config, "enable_registration", TRUE)
        settings ==
            [host_video |-> Get(meeting_config, "host_video", TRUE),
             participant_video |-> Get(meeting_config, "participant_video", TRUE),
             join_before_host |-> Get(meeting_config, "join_before_host", FALSE),
             mute_upon_entry |-> Get(meeting_config, "mute_upon_entry", TRUE),
             watermark |-> Get(meeting_config, "watermark", FALSE),
             use_pmi |-> FALSE,
             approval_type |-> IF enable_registration
                               THEN Get(meeting_config, "approval_type", 0)
                               ELSE Get(meeting_config, "approval_type", 2),
             registration_type |-> Get(meeting_config, "registration_type", 1),
             audio |-> Get(meeting_config, "audio", S_both),
             auto_recording |-> Get(meeting_config, "auto_recording", S_none),
             waiting_room |-> Get(meeting_config, "waiting_room", TRUE),
             meeting_authentication |-> Get(meeting_config, "meeting_authentication", FALSE)]
    IN  IF ~recurrence.ok THEN recurrence
        ELSE Ok(("topic" :> meeting_config["topic"])
                    @@ ("type" :> 8)
                    @@ ("start_time" :> start_datetime)
                    @@ ("duration" :> Get(meeting_config, "duration", Num(ZoomDefaultDuration)))
                    @@ ("timezone" :> Get(meeting_config, "timezone", S_UTC))
                    @@ ("agenda" :> Get(meeting_config, "agenda", <<>>))
                    @@ ("recurrence" :> Val(recurrence))
                    @@ ("settings" :> settings)
                    @@ (IF "password" \in DOMAIN meeting_config
                        THEN "password" :> meeting_config["password"] ELSE <<>>))

\* What a step of a batch creator leaves behind: the requests, sleeps and CSV rows it
\* logged for record idx, whether a valid token is cached afterwards, and how it
\* ended: "ok", "HTTPError", "Exception" (any other exception) or "SystemExit".
Effect(entries, tok, end) == [log |-> entries, token |-> tok, end |-> end]
Entry(op, idx) == [op |-> op, rec |-> idx]

\* ZoomAPIClient.get_access_token: the cached token while it is valid (whether it has
\* expired is the clock's choice), else one token request.  The request answers with
\* a token, fails as a RequestException (sys.exit(1)), or answers with a body that
\* lacks a key (KeyError).
get_access_token(idx, tok) ==
    (IF tok THEN {Effect(<<>>, TRUE, "ok")} ELSE {})
        \cup {Effect(<<Entry("token", idx)>>, TRUE, "ok"),
              Effect(<<Entry("token", idx)>>, FALSE, "SystemExit"),
              Effect(<<Entry("token", idx)>>, FALSE, "Exception")}

\* a request of the client: the token, then the request, answered 2xx, answered with
\* an error status (raise_for_status: HTTPError) or not answered (ConnectionError)
client_request(op, idx, tok) ==
    UNION {IF t.end /= "ok" THEN {t}
           ELSE {Effect(t.log \o <<Entry(op, idx)>>, t.token, end) :
                    end \in {"ok", "HTTPError", "Exception"}} :
           t \in get_access_token(idx, tok)}

create_meeting(idx, tok) == client_request("create", idx, tok)

\* get_user_info under the inner try of the loop: an HTTPError whose message names the
\* missing user-read scopes is swallowed, every other one is raised again
get_user_info(idx, tok) ==
    client_request("user", idx, tok)
        \cup {Effect(t.log \o <<Entry("user", idx)>>, t.token, "ok") :
                 t \in {u \in get_access_token(idx, tok) : u.end = "ok"}}

-----------------------------------------------------------------------------
(* The payload builders of the two WordPress creators.                     *)

S_draft == <<"d", "r", "a", "f", "t">>
S_America_New_York == <<"A", "m", "e", "r", "i", "c", "a", "/", "N", "e", "w", "_", "Y", "o",
                        "r", "k">>

\* the keys build_event_payload copies when the event has them
optional_fields(event_data) ==
    (IF "venue" \in DOMAIN event_data
     THEN "venue" :> ("venue" :> event_data["venue"]) ELSE <<>>)
        @@ (IF "organizer" \in DOMAIN event_data
            THEN "organizer" :> ("organizer" :> event_data["organizer"]) ELSE <<>>)
        @@ (IF "categories" \in DOMAIN event_data
            THEN "categories" :> event_data["categories"] ELSE <<>>)

\* create_recurring_events.py, build_event_payload: the rules first, then the dict
recurring_build_event_payload(event_data, cfg) ==
    LET recurrence_rules == build_recurrence_rules(event_data)
        status == Get(event_data, "status", Get(cfg, "status", S_draft))
        timezone == Get(event_data, "timezone", Get(cfg, "timezone", S_America_New_York))
    IN  IF ~recurrence_rules.ok THEN recurrence_rules
        ELSE IF ~({"title", "start_date", "start_time", "end_time"} \subseteq DOMAIN event_data)
        THEN Raise("KeyError")
        ELSE Ok(("title" :> event_data["title"])
                    @@ ("description" :> Get(event_data, "description", <<>>))
                    @@ ("status" :> status)
                    @@ ("start_date" :>
                            event_data["start_date"] \o <<" ">> \o event_data["start_time"])
                    @@ ("end_date" :>
                            event_data["start_date"] \o <<" ">> \o event_data["end_time"])
                    @@ ("all_day" :> FALSE)
                    @@ ("timezone" :> timezone)
                    @@ ("recurrence" :> Val(recurrence_rules))
                    @@ optional_fields(event_data))

\* build_event_payload that asks the global configuration before the event
events_build_event_payload_config_first(event_data, cfg) ==
    LET status == Get(cfg, "status", Get(event_data, "status", S_draft))
        timezone == Get(cfg, "timezone", Get(event_data, "timezone", S_America_New_York))
    IN  IF ~({"title", "start_date", "start_time", "end_date", "end_time"}
                 \subseteq DOMAIN event_data)
        THEN Raise("KeyError")
        ELSE Ok(("title" :> event_data["title"])
                    @@ ("description" :> Get(event_data, "description", <<>>))
                    @@ ("status" :> status)
                    @@ ("start_date" :>
                            event_data["start_date"] \o <<" ">> \o event_data["start_time"])
                    @@ ("end_date" :>
                            event_data["end_date"] \o <<" ">> \o event_data["end_time"])
                    @@ ("all_day" :> Get(event_data, "all_day", FALSE))
                    @@ ("timezone" :> timezone)
                    @@ optional_fields(event_data))

\* create_events.py, build_event_payload
events_build_event_payload(event_data, cfg) ==
    LET status == Get(event_data, "status", Get(cfg, "status", S_draft))
        timezone == Get(event_data, "timezone", Get(cfg, "timezone", S_America_New_York))
    IN  IF ~({"title", "start_date", "start_time", "end_date", "end_time"}
                 \subseteq DOMAIN event_data)
        THEN Raise("KeyError")
        ELSE Ok(("title" :> event_data["title"])
                    @@ ("description" :> Get(event_data, "description", <<>>))
                    @@ ("status" :> status)
                    @@ ("start_date" :>
                            event_data["start_date"] \o <<" ">> \o event_data["start_time"])
                    @@ ("end_date" :>
                            event_data["end_date"] \o <<" ">> \o event_data["end_time"])
                    @@ ("all_day" :> Get(event_data, "all_day", FALSE))
                    @@ ("timezone" :> timezone)
                    @@ optional_fields(event_data))

-----------------------------------------------------------------------------
(* The loop bodies of the three batch creators.                            *)

\* "if x" on a value that may be absent: a key that is there with a non-empty text
Truthy(d, k) == k \in DOMAIN d /\ d[k] /= <<>>

\* dict(meeting_config) with default_password filled in (lines 356-358 and 395-397)
with_defaults(meeting_config, cfg) ==
    IF Truthy(cfg, "default_password") /\ "password" \notin DOMAIN meeting_config
    THEN meeting_config @@ ("password" :> cfg["default_password"])
    ELSE meeting_config

\* the try block of the loop for record idx of n (lines 372-420), and the handler it
\* ends in: user check when verbose, payload, create_meeting, save_meeting_to_file
\* (the append may fail), and the sleep when the record is not the last
zoom_try_block(idx, n, meeting_config, cfg, vb, tok) ==
    LET verified == IF vb THEN get_user_info(idx, tok) ELSE {Effect(<<>>, tok, "ok")}
        payload == build_meeting_payload(with_defaults(meeting_config, cfg))
        rest == IF idx < n THEN <<Entry("sleep", idx)>> ELSE <<>>
    IN  UNION {
          IF v.end /= "ok" THEN {v}
          ELSE IF ~payload.ok THEN {Effect(v.log, v.token, "Exception")}
          ELSE UNION {
                 IF c.end /= "ok" THEN {Effect(v.log \o c.log, c.token, c.end)}
                 ELSE {Effect(v.log \o c.log \o <<Entry("csv", idx)>> \o rest, c.token, "ok"),
                       Effect(v.log \o c.log, c.token, "Exception")} :
                 c \in create_meeting(idx, v.token)} :
          v \in verified}

\* create_recurring_event: the payload (its ValueError leaves the function), then one
\* POST, answered 200/201 with an id, 200/201 without one, with another status, or
\* not at all (RequestException); the end is "ok" for an id, "None" for None
create_recurring_event(idx, event_data, cfg) ==
    IF ~recurring_build_event_payload(event_data, cfg).ok
    THEN {Effect(<<>>, FALSE, "Exception")}
    ELSE {Effect(<<Entry("create", idx)>>, FALSE, end) : end \in {"ok", "None"}}

\* the answers to a POST: 200/201 with an id; 200/201 with a JSON object without id;
\* 200/201 with a body that is no JSON object; another status with the code
\* "could-not-create-organizer"; another status with another code, or none; another
\* status with a JSON body that is no object; no answer (RequestException)
Answers ==
    {"created", "no id", "bad body", "organizer refused", "refused", "refused bad body",
     "no answer"}
Answers2xx == {"created", "no id", "bad body"}

\* what create_event returns, or how it ends, on the answer to one of its POSTs (n is
\* 1 or 2) when that answer decides: response.json() of a body that is not JSON raises
\* a RequestException with requests 2.27 and later and a plain ValueError before, and
\* .get of a JSON value that is no object raises AttributeError
Returned(n, answer) ==
    IF answer = "created" THEN {[end |-> "ok", error |-> "None"]}
    ELSE IF answer = "no id" THEN {[end |-> "None", error |-> "None"]}
    ELSE IF answer = "bad body"
    THEN {[end |-> "None", error |-> IF n = 1 THEN "exception of request 1"
                                              ELSE "exception of request 2"],
          [end |-> "crash", error |-> "None"]}
    ELSE IF answer = "refused bad body" /\ n = 1
    THEN {[end |-> "crash", error |-> "None"]}
    ELSE IF answer = "no answer"
    THEN {[end |-> "None", error |-> IF n = 1 THEN "exception of request 1"
                                              ELSE "exception of request 2"]}
    ELSE {[end |-> "None", error |-> "HTTP of response 1"]}

\* create_event whose second POST sends the payload again, organizer and all
create_event_same_payload(idx, payload) ==
    LET Post(p, a) == [rec |-> idx, payload |-> p, answer |-> a]
        Result(entries, posts, r) ==
            [log |-> entries, token |-> FALSE, end |-> r.end, posts |-> posts,
             error |-> r.error]
        first == <<Entry("create", idx)>>
        retried == first \o <<Entry("retry", idx)>>
    IN  UNION {
          IF a1 = "organizer refused" /\ "organizer" \in DOMAIN payload
          THEN UNION {{Result(retried, <<Post(payload, a1), Post(payload, a2)>>, r) :
                          r \in Returned(2, a2)} : a2 \in Answers}
          ELSE {Result(first, <<Post(payload, a1)>>, r) : r \in Returned(1, a1)} :
          a1 \in Answers}

\* create_event: one POST and, when it is refused with the code
\* "could-not-create-organizer" and the payload has an organizer, a second POST of a
\* copy of the payload without the organizer; the end is "ok" for an id and "None" for
\* (None, error), and the error is None, the status and text of the first response,
\* or the text of the RequestException
create_event(idx, payload) ==
    LET Post(p, a) == [rec |-> idx, payload |-> p, answer |-> a]
        Result(entries, posts, r) ==
            [log |-> entries, token |-> FALSE, end |-> r.end, posts |-> posts,
             error |-> r.error]
        first == <<Entry("create", idx)>>
        retried == first \o <<Entry("retry", idx)>>
        retry_payload == [k \in DOMAIN payload \ {"organizer"} |-> payload[k]]
    IN  UNION {
          IF a1 = "organizer refused" /\ "organizer" \in DOMAIN payload
          THEN UNION {{Result(retried, <<Post(payload, a1), Post(retry_payload, a2)>>, r) :
                          r \in Returned(2, a2)} : a2 \in Answers}
          ELSE {Result(first, <<Post(payload, a1)>>, r) : r \in Returned(1, a1)} :
          a1 \in Answers}

-----------------------------------------------------------------------------
(* Dicts by reference.  A Python name holds a reference to a dict; the     *)
(* heap is the sequence of the dicts, a reference is a position in it.     *)

\* {...}: a new dict
new_dict(h, d) == [heap |-> Append(h, d), ref |-> Len(h) + 1]

\* dict_copy that copies nothing: y = x, another name for the same dict
dict_alias(h, ref) == [heap |-> h, ref |-> ref]

\* dict(x): a new dict with the items of x
dict_copy(h, ref) == new_dict(h, h[ref])

\* x[k] = v
setitem(h, ref, k, v) ==
    [h EXCEPT ![ref] = [x \in DOMAIN @ \cup {k} |-> IF x = k THEN v ELSE @[x]]]

\* x.pop(k, None)
pop(h, ref, k) == [h EXCEPT ![ref] = [x \in DOMAIN @ \ {k} |-> @[x]]]

-----------------------------------------------------------------------------
(* Inputs: the records and texts the scripts are run on.                   *)

S_tz_default == <<"A", "m", "e", "r", "i", "c", "a", "/", "N", "e", "w", "_", "Y", "o", "r", "k">>

UpperChar(c) ==
    IF \E i \in 1..Len(LowerLetters) : LowerLetters[i] = c
    THEN UpperLetters[CHOOSE i \in 1..Len(LowerLetters) : LowerLetters[i] = c]
    ELSE c
Upper(s) == [i \in 1..Len(s) |-> UpperChar(s[i])]
Capitalize(s) == [i \in 1..Len(s) |-> IF i = 1 THEN UpperChar(s[i]) ELSE s[i]]
Cases(s) == {s, Upper(s), Capitalize(s)}

\* the texts of at most n characters over the alphabet A
RECURSIVE Runs(_, _)
Runs(A, n) ==
    IF n = 0 THEN {<<>>}
    ELSE LET shorter == Runs(A, n - 1)
         IN  shorter \cup {Append(r, c) : r \in shorter, c \in A}

\* the union of dicts with disjoint keys, over every choice of their parts
Join2(A, B) == {a @@ b : a \in A, b \in B}
Join3(A, B, C) == Join2(Join2(A, B), C)
Join4(A, B, C, D) == Join2(Join3(A, B, C), D)

RecurrenceTypes == { <<"m", "o", "n", "t", "h", "l", "y">>, <<"M", "o", "n", "t", "h", "l",
                                                  "y">>, <<"w", "e", "e", "k", "l",
                                                  "y">>, <<"W", "E", "E", "K", "L",
                                                  "Y">>, <<"d", "a", "i", "l", "y">>, <<"y",
                                                  "e", "a", "r", "l", "y">> }
MonthlyWeeks == {1, 2, 3, 4, -1, 0, 5}
MonthlyWeekDays == (1..7) \cup {0, 8}
\* two dates of the calendar, one that is not, and one without zero padding
FewStartDates == { <<"2", "0", "2", "6", "-", "0", "3", "-", "0", "2">>, <<"2", "0", "2", "6",
                                                  "-", "0", "3", "-", "3", "0">>, <<"2", "0",
                                                  "2", "6", "-", "0", "2", "-", "3",
                                                  "0">>, <<"2", "0", "2", "6", "-", "3", "-",
                                                  "9">> }
\* every day of five months, 28 to 31 days long
DateMonths == {<<2024, 2>>, <<2026, 1>>, <<2026, 2>>, <<2026, 3>>, <<2026, 4>>}
ManyStartDates ==
    UNION {{IsoDate(ym[1], ym[2], d) : d \in 1..MonthDays(ym[1], ym[2])} : ym \in DateMonths}
StartTimes == { <<"1", "0", ":", "0", "0", ":", "0", "0">>, <<"2", "3", ":", "3", "0", ":", "0",
                                                  "0">>, <<"9", ":", "5", ":", "0">>, <<"2",
                                                  "5", ":", "0", "0", ":", "0", "0">>, <<"n",
                                                  "o", "o", "n">> }
Durations == { Num(45), Num(90), Text(<<"4", "5">>), Text(<<"a", "b", "c">>) }
EndDates == { <<"2", "0", "2", "6", "-", "1", "2", "-", "3", "1">>, <<"n", "e", "x", "t", " ",
                                                  "y", "e", "a", "r">> }

\* records that vary the fields the recurrence pattern is taken from
PatternRecords ==
    Join2(Join4(Opt("recurrence_type", RecurrenceTypes),
                Opt("monthly_week", MonthlyWeeks),
                Opt("monthly_week_day", MonthlyWeekDays),
                Opt("start_date", FewStartDates)),
          Opt("monthly_day", {15}))

\* records that vary the fields the end of the series is taken from
EndRecords ==
    Join2(Join4(Opt("recurrence_type", { <<"m", "o", "n", "t", "h", "l", "y">>, <<"w", "e", "e",
                                                  "k", "l", "y">>, <<"d", "a", "i", "l", "y">> }),
                Opt("end_date", EndDates),
                Opt("occurrences", {12}),
                Opt("start_date", { <<"2", "0", "2", "6", "-", "0", "3", "-", "0", "2">> })),
          Join4(Opt("monthly_week", {2}),
                Opt("monthly_week_day", {3}),
                Opt("monthly_day", {15}),
                Opt("weekly_days", { <<"1", ",", "3">> })))

\* records that vary the time of day, the duration and the fields passed through
TimeRecords ==
    Join2(Join4(Opt("start_time", StartTimes),
                Opt("duration", Durations),
                Opt("start_date", { <<"2", "0", "2", "6", "-", "0", "3", "-", "0", "2">>, <<"2",
                                                  "0", "2", "6", "-", "0", "2", "-", "3", "0">> }),
                Join2(Opt("monthly_week", {1}), Opt("monthly_week_day", {2}))),
          Join4(Opt("topic", { <<"D", "a", "t", "a", " ", "H", "e", "l", "p", " ", "D", "e",
                                 "s", "k">> }),
                Opt("timezone", { <<"U", "T", "C">> }),
                Opt("end_date", { <<"2", "0", "2", "6", "-", "1", "2", "-", "3", "1">> }),
                Opt("repeat_interval", {2})))

\* monthly records (said or by default) whose pattern comes from the start date
DateRecords ==
    Join3(Opt("recurrence_type", { <<"m", "o", "n", "t", "h", "l", "y">>, <<"w", "e", "e", "k",
                                                  "l", "y">> }),
          {"start_date" :> t : t \in ManyStartDates},
          Opt("monthly_week", {0}))

MeetingRecords == PatternRecords \cup EndRecords \cup TimeRecords \cup DateRecords

\* event_data["recurrence_day"]: an ordinal and a weekday in any case, or a word that
\* is neither, with little around them ...
WordPatterns ==
    {lead \o o \o sep \o w \o trail :
        lead \in {<<>>, <<"x">>},
        o \in UNION {Cases(x) : x \in OrdinalWords} \cup { <<"z", "e", "r", "o", "t",
                                                  "h">>, <<"f", "i", "f", "t", "h">> },
        sep \in {<<>>, <<" ">>, <<"\t">>, <<"-">>},
        w \in UNION {Cases(x) : x \in WeekdayWords} \cup { <<"F", "u", "n", "d", "a", "y">> },
        trail \in {<<>>, <<"s">>, <<"\n">>}}

\* ... or a few well-formed words with whitespace of every kind around and between
SpacedPatterns ==
    {lead \o o \o sep \o w \o trail :
        lead \in Runs({" "}, MaxWs) \cup { <<"\t">>, <<"o", "n", " ">> },
        o \in { <<"f", "i", "r", "s", "t">>, <<"L", "A", "S", "T">> },
        sep \in Runs(Whitespace, MaxWs) \cup { <<" ", "x", " ">> },
        w \in { <<"M", "o", "n", "d", "a", "y">>, <<"f", "r", "i", "d", "a", "y">> },
        trail \in Runs({" ", "\n"}, MaxWs) \cup { <<" ", "x">> }}

Patterns == WordPatterns \cup SpacedPatterns

\* the well-formed patterns as the mapper writes them; event_data["end_date"] is also
\* tried as the empty text with these
PlainPatterns == {o \o <<" ">> \o w : o \in OrdinalWords, w \in WeekdayWords}

\* the meetings lists of main(): records of every outcome
BatchRecords ==
    { ("topic" :> <<"A">>) @@ ("monthly_week" :> 1) @@ ("monthly_week_day" :> 2)
          @@ ("start_date" :> <<"2", "0", "2", "6", "-", "0", "3", "-", "0", "2">>),
      ("recurrence_type" :> <<"M", "o", "n", "t", "h", "l",
                              "y">>) @@ ("monthly_week" :> -1) @@ ("monthly_week_day" :> 6),
      ("topic" :> <<"B">>) @@ ("start_date" :> <<"2", "0", "2", "6", "-", "0", "3", "-", "3",
                                                 "0">>) @@ ("duration" :> Num(90)),
      ("topic" :> <<"C">>) @@ ("recurrence_type" :> <<"w", "e", "e", "k", "l",
                                                  "y">>) @@ ("start_date" :> <<"2", "0", "2",
                                                  "6", "-", "0", "3", "-", "0", "2">>),
      ("topic" :> <<"D">>) @@ ("monthly_week" :> 5),
      ("recurrence_type" :> <<"D", "a", "i", "l",
                              "y">>) @@ ("monthly_week" :> 1) @@ ("monthly_week_day" :> 2),
      ("topic" :> <<"E">>) @@ ("monthly_week" :> 1) @@ ("start_date" :> <<"2", "0", "2", "6",
                                                  "-", "0", "2", "-", "3", "0">>),
      ("topic" :> <<"F">>) @@ ("monthly_week" :> 1) @@ ("monthly_week_day" :> 2)
          @@ ("start_time" :> <<"n", "o", "o", "n">>),
      ("monthly_week" :> 2) @@ ("monthly_week_day" :> 3) @@ ("duration" :> Text(<<"a", "b",
                                                  "c">>)) }

\* the events of a WordPress configuration: every field validate_config asks for, and
\* the optional ones; the empty text is a value too
EventRecords ==
    Join2({("title" :> <<"C", "a", "l", "l">>) @@ ("start_date" :> <<"2", "0", "2", "6", "-",
                                                  "0", "3", "-", "2", "7">>)
               @@ ("start_time" :> <<"1", "4", ":", "0", "0", ":", "0",
                                     "0">>) @@ ("end_date" :> <<"2", "0", "2", "6", "-", "0",
                                     "3", "-", "2", "7">>)
               @@ ("end_time" :> <<"1", "5", ":", "0", "0", ":", "0", "0">>)},
          Join4(Opt("status", { <<"d", "r", "a", "f", "t">>, <<"p", "u", "b", "l", "i", "s",
                                                  "h">>, <<>> }),
                Opt("timezone", { <<"U", "T", "C">>, <<"A", "m", "e", "r", "i", "c", "a", "/",
                                                  "C", "h", "i", "c", "a", "g", "o">>, <<>> }),
                Opt("organizer", { <<"E", "S", "I", "P">> }),
                Opt("recurrence_day", { <<"l", "a", "s", "t", " ", "F", "r", "i", "d", "a",
                                          "y">>, <<"f", "i", "r", "s", "t", "m", "o", "n", "d",
                                          "a", "y">> })))

\* the keys of the global configuration that the payload builders read
GlobalConfigs ==
    Join2(Opt("status", { <<"p", "u", "b", "l", "i", "s", "h">>, <<"p", "e", "n", "d", "i", "n",
                                                  "g">> }),
          Opt("timezone", { <<"U", "T", "C">>, <<"E", "u", "r", "o", "p", "e", "/", "P", "a",
                                                 "r", "i", "s">> }))

RECURSIVE Lists(_, _)
\* the lists of at most n elements of S
Lists(S, n) ==
    IF n = 0 THEN {<<>>}
    ELSE LET shorter == Lists(S, n - 1)
         IN  shorter \cup {Append(l, x) : l \in shorter, x \in S}

-----------------------------------------------------------------------------
(* The state machines.                                                     *)

IdleDate ==
    /\ cal = [y |-> 1, m |-> 1, d |-> 1] /\ calDow = 0 /\ walked = 0
    /\ derived = None /\ weeklyOut = None
IdleRec == meeting = <<>> /\ recDayOut = None /\ mapOut = None /\ zoomOut = None /\ rulesOut = None
IdleParse == pattern = None /\ endDate = None /\ parseOut = None
IdleBatch ==
    /\ meetings = <<>> /\ index = 1 /\ events = <<>> /\ eventFrom = <<>> /\ warnings = <<>>
    /\ pc = "idle" /\ outputWritten = FALSE

IdlePayload ==
    /\ eventData = <<>> /\ globalConfig = <<>> /\ recurringOut = None /\ eventsOut = None
    /\ validated = None
IdleCreate ==
    /\ script = "none" /\ config = <<>> /\ dryRun = FALSE /\ verbose = FALSE /\ at = 1
    /\ log = <<>> /\ token = FALSE /\ csv = <<>> /\ successCount = 0 /\ failureCount = 0
    /\ cpc = "idle" /\ posted = <<>> /\ reported = <<>>
IdleFrame == heap = <<>> /\ ran = {} /\ defaultPassword = None
IdleTime ==
    startTime = <<>> /\ durationMinutes = 0 /\ computeOut = None /\ calculateOut = None
IdleGenerate ==
    /\ template = <<>> /\ csvRows = <<>> /\ zoomMeetings = <<>> /\ lookup = <<>>
    /\ usage = <<>> /\ outEvents = <<>> /\ outFrom = <<>> /\ gi = 1 /\ gpc = "idle"
    /\ validOut = None
IdleGenerators == IdleTime /\ IdleGenerate
IdleTranslators == IdleDate /\ IdleRec /\ IdleParse /\ IdleBatch
IdleCreators == IdlePayload /\ IdleCreate /\ IdleFrame

(* --- the deriver over the days of the calendar ------------------------- *)

\* days whose weekday is known: calDow counts from Monday = 0
Anchors ==
    { [y |-> 2026, m |-> 3, d |-> 2, dow |-> 0],
      [y |-> 2024, m |-> 1, d |-> 1, dow |-> 0],
      [y |-> 2000, m |-> 1, d |-> 1, dow |-> 5],
      [y |-> 1900, m |-> 1, d |-> 1, dow |-> 0],
      [y |-> 2100, m |-> 1, d |-> 1, dow |-> 4] }

InitDate ==
    /\ \E a \in Anchors : cal = [y |-> a.y, m |-> a.m, d |-> a.d] /\ calDow = a.dow
    /\ walked = 0
    /\ derived = None
    /\ weeklyOut = None
    /\ IdleRec /\ IdleParse /\ IdleBatch /\ IdleCreators /\ IdleGenerators

\* the day after cal
Tomorrow(c) ==
    IF c.d < MonthDays(c.y, c.m) THEN [c EXCEPT !.d = c.d + 1]
    ELSE IF c.m < 12 THEN [c EXCEPT !.m = c.m + 1, !.d = 1]
    ELSE [y |-> c.y + 1, m |-> 1, d |-> 1]

NextDay ==
    /\ walked < MaxWalkDays
    /\ cal' = Tomorrow(cal)
    /\ calDow' = (calDow + 1) % 7
    /\ walked' = walked + 1
    /\ derived' = None
    /\ weeklyOut' = None
    /\ UNCHANGED <<recVars, parseVars, batchVars, creatorVars, generatorVars>>

\* recurrence_day_from_start_date on the text of the day
Derive ==
    /\ derived = None
    /\ derived' = Some(recurrence_day_from_start_date(IsoDate(cal.y, cal.m, cal.d)))
    /\ UNCHANGED <<cal, calDow, walked, weeklyOut, recVars, parseVars, batchVars, creatorVars,
                   generatorVars>>

\* parse_recurrence_config on a weekly meeting that starts on the day and names no
\* weekly_days
ParseWeekly ==
    /\ weeklyOut = None
    /\ weeklyOut' = Some(parse_recurrence_config(
                         ("recurrence_type" :> S_weekly)
                             @@ ("start_date" :> IsoDate(cal.y, cal.m, cal.d))))
    /\ UNCHANGED <<cal, calDow, walked, derived, recVars, parseVars, batchVars, creatorVars,
                   generatorVars>>

NextDate == NextDay \/ Derive \/ ParseWeekly
SpecDate == InitDate /\ [][NextDate]_vars

(* --- one meeting record through the translators ------------------------ *)

InitRec ==
    /\ meeting \in MeetingRecords
    /\ recDayOut = None /\ mapOut = None /\ zoomOut = None /\ rulesOut = None
    /\ IdleDate /\ IdleParse /\ IdleBatch /\ IdleCreators /\ IdleGenerators

\* map_meeting_to_event, and the pair its first statement gets from map_recurrence_day
MapMeeting ==
    /\ mapOut = None
    /\ recDayOut' = Some(map_recurrence_day(meeting))
    /\ mapOut' = Some(map_meeting_to_event(meeting, S_tz_default))
    /\ UNCHANGED <<meeting, zoomOut, rulesOut, dateVars, parseVars, batchVars, creatorVars,
                   generatorVars>>

ParseRecurrence ==
    /\ zoomOut = None
    /\ zoomOut' = Some(parse_recurrence_config(meeting))
    /\ UNCHANGED <<meeting, recDayOut, mapOut, rulesOut, dateVars, parseVars, batchVars, creatorVars,
                   generatorVars>>

\* the mapped event handed to build_recurrence_rules by create_recurring_event
BuildRules ==
    /\ rulesOut = None
    /\ mapOut /= None /\ mapOut[1].ok /\ Val(mapOut[1]).event /= None
    /\ rulesOut' = Some(build_recurrence_rules(Val(mapOut[1]).event[1]))
    /\ UNCHANGED <<meeting, recDayOut, mapOut, zoomOut, dateVars, parseVars, batchVars, creatorVars,
                   generatorVars>>

NextRec == MapMeeting \/ ParseRecurrence \/ BuildRules
SpecRec == InitRec /\ [][NextRec]_vars

(* --- build_recurrence_rules on one event_data -------------------------- *)

InitParse ==
    /\ pattern \in {None} \cup {Some(p) : p \in Patterns}
    /\ endDate \in {None, Some(<<"2", "0", "2", "6", "-", "1", "2", "-", "3", "1">>)}
                   \cup (IF pattern = None \/ pattern[1] \in PlainPatterns
                         THEN {Some(<<>>)} ELSE {})
    /\ parseOut = None
    /\ IdleDate /\ IdleRec /\ IdleBatch /\ IdleCreators /\ IdleGenerators

\* the event_data dict of the state
EventData ==
    (IF pattern = None THEN <<>> ELSE "recurrence_day" :> pattern[1])
        @@ (IF endDate = None THEN <<>> ELSE "end_date" :> endDate[1])

Parse ==
    /\ parseOut = None
    /\ parseOut' = Some(build_recurrence_rules(EventData))
    /\ UNCHANGED <<pattern, endDate, dateVars, recVars, batchVars, creatorVars, generatorVars>>

SpecParse == InitParse /\ [][Parse]_vars

(* --- main() of the mapper ---------------------------------------------- *)

S_Untitled == <<"U", "n", "t", "i", "t", "l", "e", "d">>

InitBatch ==
    /\ meetings \in Lists(BatchRecords, MaxMeetings)
    /\ index = 1
    /\ events = <<>>
    /\ eventFrom = <<>>
    /\ warnings = <<>>
    /\ pc = "loop"
    /\ outputWritten = FALSE
    /\ IdleDate /\ IdleRec /\ IdleParse /\ IdleCreators /\ IdleGenerators

\* "if not meetings": the error is printed and the script exits with status 1
ExitNoMeetings ==
    /\ pc = "loop" /\ meetings = <<>>
    /\ pc' = "exit1"
    /\ UNCHANGED <<meetings, index, events, eventFrom, warnings, outputWritten,
                   dateVars, recVars, parseVars, creatorVars, generatorVars>>

\* LoopIteration with a "continue" after the note of a mapped meeting
LoopIteration_continue_after_note ==
    /\ pc = "loop" /\ meetings /= <<>> /\ index <= Len(meetings)
    /\ LET m == meetings[index]
           r == map_meeting_to_event(m, S_tz_default)
           topic == Get(m, "topic", S_Untitled)
       IN  IF ~r.ok
           THEN pc' = "crashed" /\ UNCHANGED <<index, events, eventFrom, warnings>>
           ELSE IF Val(r).event = None
           THEN /\ warnings' = Append(warnings,
                        [kind |-> "Skipped", index |-> index, topic |-> topic,
                         text |-> Val(r).warning[1]])
                /\ index' = index + 1
                /\ UNCHANGED <<events, eventFrom, pc>>
           ELSE IF Val(r).warning /= None
           THEN /\ warnings' = Append(warnings,
                        [kind |-> "Mapped", index |-> index, topic |-> topic,
                         text |-> Val(r).warning[1]])
                /\ index' = index + 1
                /\ UNCHANGED <<events, eventFrom, pc>>
           ELSE /\ events' = Append(events, Val(r).event[1])
                /\ eventFrom' = Append(eventFrom, index)
                /\ index' = index + 1
                /\ UNCHANGED <<warnings, pc>>
    /\ UNCHANGED <<meetings, outputWritten, dateVars, recVars, parseVars, creatorVars,
                   generatorVars>>

\* one pass of the for loop; an exception of map_meeting_to_event is caught nowhere
\* and ends the script with a traceback.  eventFrom records, for each element of
\* events, the number of the meeting it was made from.
LoopIteration ==
    /\ pc = "loop" /\ meetings /= <<>> /\ index <= Len(meetings)
    /\ LET m == meetings[index]
           r == map_meeting_to_event(m, S_tz_default)
           topic == Get(m, "topic", S_Untitled)
       IN  IF ~r.ok
           THEN pc' = "crashed" /\ UNCHANGED <<index, events, eventFrom, warnings>>
           ELSE IF Val(r).event = None
           THEN /\ warnings' = Append(warnings,
                        [kind |-> "Skipped", index |-> index, topic |-> topic,
                         text |-> Val(r).warning[1]])
                /\ index' = index + 1
                /\ UNCHANGED <<events, eventFrom, pc>>
           ELSE /\ warnings' =
                        IF Val(r).warning /= None
                        THEN Append(warnings,
                                [kind |-> "Mapped", index |-> index, topic |-> topic,
                                 text |-> Val(r).warning[1]])
                        ELSE warnings
                /\ events' = Append(events, Val(r).event[1])
                /\ eventFrom' = Append(eventFrom, index)
                /\ index' = index + 1
                /\ UNCHANGED pc
    /\ UNCHANGED <<meetings, outputWritten, dateVars, recVars, parseVars, creatorVars,
                   generatorVars>>

\* after the loop: write_json and the summary
WriteOutput ==
    /\ pc = "loop" /\ meetings /= <<>> /\ index > Len(meetings)
    /\ outputWritten' = TRUE
    /\ pc' = "done"
    /\ UNCHANGED <<meetings, index, events, eventFrom, warnings, dateVars, recVars, parseVars, creatorVars,
                   generatorVars>>

NextBatch == ExitNoMeetings \/ LoopIteration \/ WriteOutput
SpecBatch == InitBatch /\ [][NextBatch]_vars

(* --- the three batch creators ------------------------------------------ *)

\* meetings of a Zoom configuration: one that can be created, one whose host_email is
\* empty, one whose payload cannot be built (no start_date)
ZoomMeetings ==
    { ("host_email" :> <<"a", "@", "e", "s", "i", "p", "f", "e", "d", ".", "o", "r",
                         "g">>) @@ ("topic" :> <<"S", "y", "n", "c">>)
          @@ ("start_date" :> <<"2", "0", "2", "6", "-", "0", "3", "-", "0",
                                "2">>) @@ ("start_time" :> <<"1", "0", ":", "0", "0", ":", "0",
                                "0">>),
      ("host_email" :> <<>>) @@ ("topic" :> <<"S", "y", "n", "c">>)
          @@ ("start_date" :> <<"2", "0", "2", "6", "-", "0", "3", "-", "0",
                                "2">>) @@ ("start_time" :> <<"1", "0", ":", "0", "0", ":", "0",
                                "0">>),
      ("host_email" :> <<"b", "@", "e", "s", "i", "p", "f", "e", "d", ".", "o", "r",
                         "g">>) @@ ("topic" :> <<"B", "o", "a", "r", "d">>)
          @@ ("start_time" :> <<"1", "0", ":", "0", "0", ":", "0", "0">>) }

\* zoom_api with its three credentials, or with an empty client_secret
ZoomCredentials ==
    { [account_id |-> <<"a", "c", "c", "t">>, client_id |-> <<"i",
                                                  "d">>, client_secret |-> secret] :
          secret \in { <<"s", "3", "c", "r", "e", "t">>, <<>> } }

ZoomConfigs ==
    { ("zoom_api" :> creds) @@ ("meetings" :> l) @@ pw :
          creds \in ZoomCredentials,
          l \in Lists(ZoomMeetings, MaxRecords),
          pw \in Opt("default_password", { <<"p", "w">> }) }

\* events of create_recurring_events.py: a well-formed and a malformed recurrence_day
SeriesEvents ==
    { e \in EventRecords :
          DOMAIN e = {"title", "start_date", "start_time", "end_date", "end_time",
                      "recurrence_day"} }
\* events of create_events.py: with and without an organizer
SingleEvents ==
    { e \in EventRecords :
          /\ {"title", "start_date", "start_time", "end_date", "end_time"} \subseteq DOMAIN e
          /\ DOMAIN e \subseteq {"title", "start_date", "start_time", "end_date", "end_time",
                                  "organizer"} }

InitCreate ==
    /\ script \in {"zoom", "series", "events"}
    /\ config \in IF script = "zoom" THEN ZoomConfigs
                  ELSE IF script = "series"
                  THEN {"events" :> l : l \in Lists(SeriesEvents, MaxRecords)}
                  ELSE {"events" :> l : l \in Lists(SingleEvents, MaxRecords)}
    /\ dryRun \in BOOLEAN
    /\ verbose \in BOOLEAN
    /\ at = 1
    /\ log = <<>>
    /\ token = FALSE
    /\ csv = <<>>
    /\ successCount = 0 /\ failureCount = 0
    /\ cpc = "start"
    /\ posted = <<>> /\ reported = <<>>
    /\ IdleTranslators /\ IdlePayload /\ IdleFrame /\ IdleGenerators

\* the records the loop of the running creator goes through
Records == IF script = "zoom" THEN config["meetings"] ELSE config["events"]

\* the loop goes to its next record, or ends after the last
Advance ==
    /\ at' = at + 1
    /\ cpc' = IF at = Len(Records) THEN "done" ELSE "loop"

\* create_meetings_from_config up to its loop: sys.exit(1) without the three
\* credentials, return without meetings
ZoomStart ==
    /\ script = "zoom" /\ cpc = "start"
    /\ cpc' = IF \E k \in {"account_id", "client_id", "client_secret"} :
                     ~Truthy(config["zoom_api"], k)
              THEN "exit1"
              ELSE IF config["meetings"] = <<>> THEN "done" ELSE "loop"
    /\ UNCHANGED <<script, config, dryRun, verbose, at, log, token, csv, successCount,
                   failureCount, posted, reported, translatorVars, payloadVars, frameVars,
                   generatorVars>>

\* a record without host_email is skipped
ZoomSkipNoHost ==
    /\ script = "zoom" /\ cpc = "loop"
    /\ ~Truthy(Records[at], "host_email")
    /\ Advance
    /\ UNCHANGED <<script, config, dryRun, verbose, log, token, csv, successCount,
                   failureCount, posted, reported, translatorVars, payloadVars, frameVars,
                   generatorVars>>

\* ZoomDryRun that verifies the host with get_user_info when verbose
ZoomDryRun_verifies_user ==
    /\ script = "zoom" /\ cpc = "loop"
    /\ Truthy(Records[at], "host_email")
    /\ dryRun
    /\ \E e \in IF verbose THEN get_user_info(at, token) ELSE {Effect(<<>>, token, "ok")} :
          /\ log' = log \o e.log
          /\ token' = e.token
          /\ IF e.end = "ok" /\ build_meeting_payload(with_defaults(Records[at], config)).ok
             THEN Advance
             ELSE cpc' = "crashed" /\ at' = at
    /\ UNCHANGED <<script, config, dryRun, verbose, csv, successCount,
                   failureCount, posted, reported, translatorVars, payloadVars, frameVars,
                   generatorVars>>

\* the dry-run branch: the payload is built and printed outside any try
ZoomDryRun ==
    /\ script = "zoom" /\ cpc = "loop"
    /\ Truthy(Records[at], "host_email")
    /\ dryRun
    /\ IF build_meeting_payload(with_defaults(Records[at], config)).ok
       THEN Advance
       ELSE cpc' = "crashed" /\ at' = at
    /\ UNCHANGED <<script, config, dryRun, verbose, log, token, csv, successCount,
                   failureCount, posted, reported, translatorVars, payloadVars, frameVars,
                   generatorVars>>

\* the try block and its handlers: HTTPError and Exception print and continue,
\* SystemExit is caught by neither
ZoomCreate ==
    /\ script = "zoom" /\ cpc = "loop"
    /\ Truthy(Records[at], "host_email")
    /\ ~dryRun
    /\ \E e \in zoom_try_block(at, Len(Records), Records[at], config, verbose, token) :
          /\ log' = log \o e.log
          /\ token' = e.token
          /\ csv' = IF \E k \in 1..Len(e.log) : e.log[k].op = "csv"
                    THEN Append(csv, [host_email |-> Records[at]["host_email"], rec |-> at])
                    ELSE csv
          /\ IF e.end = "SystemExit" THEN cpc' = "exit1" /\ at' = at ELSE Advance
    /\ UNCHANGED <<script, config, dryRun, verbose, successCount, failureCount,
                   posted, reported, translatorVars, payloadVars, frameVars, generatorVars>>

\* the two WordPress creators start their loop at once
WordPressStart ==
    /\ script \in {"series", "events"} /\ cpc = "start"
    /\ cpc' = IF config["events"] = <<>> THEN "done" ELSE "loop"
    /\ UNCHANGED <<script, config, dryRun, verbose, at, log, token, csv, successCount,
                   failureCount, posted, reported, translatorVars, payloadVars, frameVars,
                   generatorVars>>

\* one event of create_recurring_event_series
SeriesIteration ==
    /\ script = "series" /\ cpc = "loop"
    /\ IF dryRun
       THEN /\ IF verbose /\ ~recurring_build_event_payload(Records[at], config).ok
               THEN failureCount' = failureCount + 1 /\ UNCHANGED successCount
               ELSE successCount' = successCount + 1 /\ UNCHANGED failureCount
            /\ UNCHANGED log
       ELSE \E e \in create_recurring_event(at, Records[at], config) :
               /\ IF e.end = "ok"
                  THEN successCount' = successCount + 1 /\ UNCHANGED failureCount
                  ELSE failureCount' = failureCount + 1 /\ UNCHANGED successCount
               /\ log' = log \o e.log \o <<Entry("sleep", at)>>
    /\ Advance
    /\ UNCHANGED <<script, config, dryRun, verbose, token, csv, posted, reported,
                   translatorVars, payloadVars, frameVars, generatorVars>>

\* one event of create_events: the payload is built outside any try
EventsIteration ==
    /\ script = "events" /\ cpc = "loop"
    /\ LET payload == events_build_event_payload(Records[at], config)
       IN  IF ~payload.ok
           THEN cpc' = "crashed"
                    /\ UNCHANGED <<at, log, successCount, failureCount, posted, reported>>
           ELSE IF dryRun
           THEN successCount' = successCount + 1 /\ Advance
                    /\ UNCHANGED <<log, failureCount, posted, reported>>
           ELSE \E e \in create_event(at, Val(payload)) :
                   /\ posted' = posted \o e.posts
                   /\ IF e.end = "crash"
                      THEN /\ cpc' = "crashed" /\ log' = log \o e.log
                           /\ UNCHANGED <<at, successCount, failureCount, reported>>
                      ELSE /\ reported' = Append(reported,
                                  [rec |-> at, created |-> e.end = "ok", error |-> e.error])
                           /\ IF e.end = "ok"
                              THEN successCount' = successCount + 1 /\ UNCHANGED failureCount
                              ELSE failureCount' = failureCount + 1 /\ UNCHANGED successCount
                           /\ log' = log \o e.log \o <<Entry("sleep", at)>>
                           /\ Advance
    /\ UNCHANGED <<script, config, dryRun, verbose, token, csv, translatorVars,
                   payloadVars, frameVars, generatorVars>>

NextCreate ==
    \/ ZoomStart \/ ZoomSkipNoHost \/ ZoomDryRun \/ ZoomCreate
    \/ WordPressStart \/ SeriesIteration \/ EventsIteration
SpecCreate == InitCreate /\ [][NextCreate]_vars

(* --- who writes to the dicts that a step is given ---------------------- *)

\* meeting records as both the Zoom creator and the mapper read them
FrameMeetings ==
    Join2({("host_email" :> <<"a", "@", "e", "s", "i", "p", "f", "e", "d", ".", "o", "r",
                              "g">>) @@ ("topic" :> <<"S", "y", "n", "c">>)
               @@ ("start_date" :> <<"2", "0", "2", "6", "-", "0", "3", "-", "0",
                                     "2">>) @@ ("start_time" :> <<"1", "0", ":", "0", "0", ":",
                                     "0", "0">>)},
          Join4(Opt("password", { <<"s", "e", "c", "r", "e", "t">> }),
                Opt("recurrence_type", { <<"m", "o", "n", "t", "h", "l", "y">>, <<"w", "e", "e",
                                                  "k", "l", "y">> }),
                Opt("monthly_week", {2}),
                Opt("monthly_week_day", {3})))

\* payloads as create_events hands them to create_event
FramePayloads == {Val(events_build_event_payload(e, <<>>)) : e \in SingleEvents}

\* heap[1] is the caller's meeting record, heap[2] the caller's payload
InitFrame ==
    /\ heap \in {<<m, p>> : m \in FrameMeetings, p \in FramePayloads}
    /\ ran = {}
    /\ defaultPassword \in {None, Some(<<>>), Some(<<"p", "w">>)}
    /\ IdleTranslators /\ IdlePayload /\ IdleCreate /\ IdleGenerators

\* lines 395-397 of create_meetings_from_config (and 356-358 of its dry run)
ApplyDefaultPassword ==
    /\ "default_password" \notin ran
    /\ ran' = ran \cup {"default_password"}
    /\ LET meeting_config_with_defaults == dict_copy(heap, 1)
           h == meeting_config_with_defaults.heap
           ref == meeting_config_with_defaults.ref
       IN  heap' = IF /\ defaultPassword /= None /\ defaultPassword[1] /= <<>>
                      /\ "password" \notin DOMAIN h[ref]
                   THEN setitem(h, ref, "password", defaultPassword[1])
                   ELSE h
    /\ UNCHANGED <<defaultPassword, translatorVars, payloadVars, createVars, generatorVars>>

\* parse_recurrence_config fills a dict of its own
ParseRecurrenceConfig ==
    /\ "parse_recurrence_config" \notin ran
    /\ ran' = ran \cup {"parse_recurrence_config"}
    /\ LET recurrence == parse_recurrence_config(heap[1])
       IN  heap' = IF recurrence.ok THEN new_dict(heap, Val(recurrence)).heap ELSE heap
    /\ UNCHANGED <<defaultPassword, translatorVars, payloadVars, createVars, generatorVars>>

\* map_meeting_to_event fills a dict of its own
MapMeetingToEvent ==
    /\ "map_meeting_to_event" \notin ran
    /\ ran' = ran \cup {"map_meeting_to_event"}
    /\ LET mapped == map_meeting_to_event(heap[1], S_tz_default)
       IN  heap' = IF mapped.ok /\ Val(mapped).event /= None
                   THEN new_dict(heap, Val(mapped).event[1]).heap
                   ELSE heap
    /\ UNCHANGED <<defaultPassword, translatorVars, payloadVars, createVars, generatorVars>>

\* lines 280-282 of create_event: the retry payload
RetryWithoutOrganizer ==
    /\ "create_event" \notin ran
    /\ "organizer" \in DOMAIN heap[2]
    /\ ran' = ran \cup {"create_event"}
    /\ LET retry_payload == dict_copy(heap, 2)
       IN  heap' = pop(retry_payload.heap, retry_payload.ref, "organizer")
    /\ UNCHANGED <<defaultPassword, translatorVars, payloadVars, createVars, generatorVars>>

NextFrame ==
    ApplyDefaultPassword \/ ParseRecurrenceConfig \/ MapMeetingToEvent
        \/ RetryWithoutOrganizer
SpecFrame == InitFrame /\ [][NextFrame]_vars

(* --- one event through the payload builders of the WordPress creators -- *)

\* validate_config of create_recurring_events.py that does not ask for end_date
recurring_validate_config_end_date_optional(cfg) ==
    /\ {"wordpress_url", "username", "app_password", "events"} \subseteq DOMAIN cfg
    /\ cfg["events"] /= <<>>
    /\ \A i \in 1..Len(cfg["events"]) :
          LET event == cfg["events"][i]
          IN  /\ {"title", "start_date", "start_time", "end_time"} \subseteq DOMAIN event
              /\ strptime_date(event["start_date"]).ok
              /\ "end_date" \in DOMAIN event => strptime_date(event["end_date"]).ok
              /\ strptime_time(event["start_time"]).ok
              /\ strptime_time(event["end_time"]).ok

\* validate_config of create_recurring_events.py: the keys of the configuration, a
\* non-empty list of events, and for each event its five keys, two dates and two times
recurring_validate_config(cfg) ==
    /\ {"wordpress_url", "username", "app_password", "events"} \subseteq DOMAIN cfg
    /\ cfg["events"] /= <<>>
    /\ \A i \in 1..Len(cfg["events"]) :
          LET event == cfg["events"][i]
          IN  /\ {"title", "start_date", "end_date", "start_time", "end_time"}
                     \subseteq DOMAIN event
              /\ strptime_date(event["start_date"]).ok
              /\ strptime_date(event["end_date"]).ok
              /\ strptime_time(event["start_time"]).ok
              /\ strptime_time(event["end_time"]).ok

\* events as they are before validation: the end date missing, empty, well-formed
\* with and without zero padding, and not a date
DraftEvents ==
    Join2({("title" :> <<"C", "a", "l", "l">>) @@ ("start_time" :> <<"1", "4", ":", "0", "0",
                                                  ":", "0", "0">>)
               @@ ("end_time" :> <<"1", "5", ":", "0", "0", ":", "0", "0">>)},
          Join3({"start_date" :> t : t \in { <<"2", "0", "2", "6", "-", "0", "3", "-", "2",
                                               "7">>, <<"2", "7", " ", "M", "a", "r", "c", "h">> }},
                Opt("end_date", { <<>>, <<"2", "0", "2", "6", "-", "1", "2", "-", "3",
                                          "1">>, <<"2", "0", "2", "6", "-", "2", "-",
                                          "3">>, <<"n", "e", "x", "t", " ", "y", "e", "a", "r">>,
                                  <<"2", "0", "2", "6", "-", "0", "2", "-", "3", "0">> }),
                Opt("recurrence_day", { <<"l", "a", "s", "t", " ", "F", "r", "i", "d", "a",
                                          "y">>, <<"f", "i", "r", "s", "t", "m", "o", "n", "d",
                                          "a", "y">> })))

\* the configuration file: the three credentials, the global settings and the event
ConfigOf(cfg, event_data) ==
    ("wordpress_url" :> <<"h", "t", "t", "p", "s", ":", "/", "/", "e", "x", "a", "m", "p", "l",
                          "e", ".", "o", "r", "g">>) @@ ("username" :> <<"e", "d", "i", "t",
                          "o", "r">>)
        @@ ("app_password" :> <<"x", "x", "x", "x">>) @@ ("events" :> <<event_data>>) @@ cfg

InitPayload ==
    /\ eventData \in EventRecords \cup DraftEvents
    /\ globalConfig \in GlobalConfigs
    /\ recurringOut = None /\ eventsOut = None /\ validated = None
    /\ IdleTranslators /\ IdleCreate /\ IdleFrame /\ IdleGenerators

\* main() of create_recurring_events.py: validate_config before anything is built
ValidateConfig ==
    /\ validated = None
    /\ validated' = Some(recurring_validate_config(ConfigOf(globalConfig, eventData)))
    /\ UNCHANGED <<eventData, globalConfig, recurringOut, eventsOut, translatorVars,
                   createVars, frameVars, generatorVars>>

BuildRecurringPayload ==
    /\ recurringOut = None
    /\ recurringOut' = Some(recurring_build_event_payload(eventData, globalConfig))
    /\ UNCHANGED <<eventData, globalConfig, eventsOut, validated, translatorVars, createVars,
                   frameVars, generatorVars>>

BuildEventPayload ==
    /\ eventsOut = None
    /\ eventsOut' = Some(events_build_event_payload(eventData, globalConfig))
    /\ UNCHANGED <<eventData, globalConfig, recurringOut, validated, translatorVars,
                   createVars, frameVars, generatorVars>>

NextPayload == ValidateConfig \/ BuildRecurringPayload \/ BuildEventPayload
SpecPayload == InitPayload /\ [][NextPayload]_vars

-----------------------------------------------------------------------------
(* Properties.                                                             *)

\* the record says monthly (or says nothing), compared without regard to case
IsMonthly(m) == Lower(Get(m, "recurrence_type", S_monthly)) = S_monthly

\* both explicit fields are present and in range
HasExplicitPattern(m) ==
    /\ "monthly_week" \in DOMAIN m /\ m.monthly_week \in {1, 2, 3, 4, -1}
    /\ "monthly_week_day" \in DOMAIN m /\ m.monthly_week_day \in 1..7

\* C1: for every date of the calendar the deriver returns normally; the position is
\* "last" exactly when day + 7 exceeds the length of the month, and otherwise the word
\* for week number ((day - 1) div 7) + 1, which is one of 1..4; the weekday is the
\* date's own day of the week (counted day by day from a known Monday).
C1_DeriverPattern ==
    derived /= None =>
        LET r == derived[1]
            week_num == ((cal.d - 1) \div 7) + 1
            words == << <<"f", "i", "r", "s", "t">>, <<"s", "e", "c", "o", "n", "d">>, <<"t",
                                                  "h", "i", "r", "d">>, <<"f", "o", "u", "r",
                                                  "t", "h">> >>
        IN  /\ r.ok
            /\ IF cal.d + 7 > MonthDays(cal.y, cal.m)
               THEN Val(r) = <<"l", "a", "s", "t", " ">> \o DayNames[calDow + 1]
               ELSE /\ week_num \in 1..4
                    /\ Val(r) = words[week_num] \o <<" ">> \o DayNames[calDow + 1]

\* C1 witness: 2026-03-30 has been derived as "last Monday"
C1_Witness ==
    /\ cal = [y |-> 2026, m |-> 3, d |-> 30]
    /\ derived = Some(Ok(<<"l", "a", "s", "t", " ", "M", "o", "n", "d", "a", "y">>))

\* C2: for a monthly record map_recurrence_day returns the explicit pattern and no
\* warning when monthly_week is in {1,2,3,4,-1} and monthly_week_day in 1..7, whatever
\* start_date is; otherwise, with a start_date (that parses), the pattern derived from
\* it and the derivation warning; otherwise no pattern and the skip reason.
C2_PatternPrecedence ==
    (recDayOut /= None /\ IsMonthly(meeting)) =>
        LET r == recDayOut[1]
        IN  IF HasExplicitPattern(meeting)
            THEN /\ r.ok
                 /\ Val(r).day = Some(POSITION_MAP[meeting.monthly_week] \o <<" ">>
                                        \o WEEKDAY_MAP[meeting.monthly_week_day])
                 /\ Val(r).warning = None
            ELSE IF "start_date" \in DOMAIN meeting
            THEN strptime_date(meeting.start_date).ok =>
                    /\ r.ok
                    /\ Val(r).day = Some(Val(recurrence_day_from_start_date(meeting.start_date)))
                    /\ Val(r).warning = Some(S_derived_warning)
            ELSE /\ r.ok
                 /\ Val(r).day = None
                 /\ Val(r).warning = Some(S_missing)

\* C2 witness: an explicit field out of range, and the pattern derived from start_date
C2_Witness ==
    /\ recDayOut /= None /\ IsMonthly(meeting)
    /\ "monthly_week" \in DOMAIN meeting /\ meeting.monthly_week = 5
    /\ "monthly_week_day" \in DOMAIN meeting
    /\ "start_date" \in DOMAIN meeting /\ meeting.start_date = <<"2", "0", "2", "6", "-", "0",
                                                  "3", "-", "0", "2">>
    /\ recDayOut[1] = Ok([day |-> Some(<<"f", "i", "r", "s", "t", " ", "M", "o", "n", "d", "a",
                                         "y">>), warning |-> Some(S_derived_warning)])

\* the meetings main() has gone through, and those among them that are not monthly
Processed == 1..(index - 1)
Unsupported == {i \in Processed : ~IsMonthly(meetings[i])}

\* the warnings about meeting number i
WarningsOf(i) == {k \in 1..Len(warnings) : warnings[k].index = i}

\* the meetings that events were made from
EventSources == {eventFrom[k] : k \in 1..Len(eventFrom)}

S_unsupported_plain == <<"u", "n", "s", "u", "p", "p", "o", "r", "t", "e", "d", " ", "r", "e",
                         "c", "u", "r", "r", "e", "n", "c", "e", "_", "t", "y", "p", "e", "=">>

\* C3 as stated: a record that is not monthly is skipped with the reason
\* unsupported recurrence_type=<value> (no quotes), and is not among the events.
C3_ReasonWithoutQuotes ==
    \A i \in Unsupported :
        /\ i \notin EventSources
        /\ \E k \in WarningsOf(i) :
              /\ warnings[k].kind = "Skipped"
              /\ warnings[k].text \in
                    { S_unsupported_plain \o meetings[i].recurrence_type,
                      S_unsupported_plain \o Lower(meetings[i].recurrence_type) }

\* C3 amended: a record that is not monthly (case-insensitively) is skipped with the
\* reason unsupported recurrence_type='<value>', the value lower-cased and in single
\* quotes, and is not among the events.
C3_UnsupportedSkipped ==
    \A i \in Unsupported :
        /\ i \notin EventSources
        /\ \E k \in WarningsOf(i) :
              /\ warnings[k].kind = "Skipped"
              /\ warnings[k].text =
                    S_unsupported_plain \o <<"'">> \o Lower(meetings[i].recurrence_type)
                        \o <<"'">>

\* C3 witness: a weekly record has been skipped and the events of others written
C3_Witness ==
    /\ pc = "done" /\ events /= <<>>
    /\ \E i \in Unsupported :
          /\ meetings[i].recurrence_type = <<"w", "e", "e", "k", "l", "y">>
          /\ \E k \in WarningsOf(i) :
                warnings[k].text = <<"u", "n", "s", "u", "p", "p", "o", "r", "t", "e", "d", " ",
                                     "r", "e", "c", "u", "r", "r", "e", "n", "c", "e", "_", "t",
                                     "y", "p", "e", "=", "'", "w", "e", "e", "k", "l", "y", "'">>

\* the outcome of meeting number i
Outcome(i) == map_meeting_to_event(meetings[i], S_tz_default)
IsSkipped(i) == Outcome(i).ok /\ Val(Outcome(i)).event = None
IsProduced(i) == Outcome(i).ok /\ Val(Outcome(i)).event /= None
IsNoted(i) == IsProduced(i) /\ Val(Outcome(i)).warning /= None

\* C4: of the meetings the loop has gone through, each has one outcome: there are as
\* many events as produced records and they are those records' events in the order of
\* the records; read = mapped + skipped; there is exactly one warning for each skipped
\* record (a "Skipped" one) and for each record produced with a warning (a "Mapped"
\* one), and none for the others.
C4_OneOutcomePerRecord ==
    pc \in {"loop", "done"} =>
        /\ \A i \in Processed : IsSkipped(i) \/ IsProduced(i)
        /\ Len(events) = Cardinality({i \in Processed : IsProduced(i)})
        /\ Len(eventFrom) = Len(events)
        /\ \A k \in 1..Len(events) :
              /\ IsProduced(eventFrom[k])
              /\ events[k] = Val(Outcome(eventFrom[k])).event[1]
              /\ k > 1 => eventFrom[k - 1] < eventFrom[k]
        /\ Cardinality(Processed)
              = Len(events) + Cardinality({k \in 1..Len(warnings) : warnings[k].kind = "Skipped"})
        /\ Len(warnings) = Cardinality({i \in Processed : IsSkipped(i) \/ IsNoted(i)})
        /\ \A i \in Processed :
              /\ Cardinality(WarningsOf(i)) = (IF IsSkipped(i) \/ IsNoted(i) THEN 1 ELSE 0)
              /\ \A k \in WarningsOf(i) :
                    /\ warnings[k].kind = (IF IsSkipped(i) THEN "Skipped" ELSE "Mapped")
                    /\ warnings[k].text = Val(Outcome(i)).warning[1]
        /\ pc = "done" => Cardinality(Processed) = Len(meetings)

\* C4 witness: a finished batch of three with one outcome of each kind
C4_Witness ==
    /\ pc = "done" /\ Len(meetings) = 3
    /\ \E i, j, k \in Processed : IsSkipped(i) /\ IsNoted(j) /\ IsProduced(k) /\ ~IsNoted(k)
    /\ Len(events) = 2 /\ Len(warnings) = 2

\* C5 as stated: a record whose translation raises (start_date, start_time or duration
\* that does not parse) becomes a skip with a reason, the loop goes on and the batch
\* is never aborted.
C5_BadRecordBecomesSkip ==
    /\ pc /= "crashed"
    /\ \A i \in Processed :
          ~Outcome(i).ok => \E k \in WarningsOf(i) : warnings[k].kind = "Skipped"

\* the words of a text that is an ordinal, whitespace and a weekday name, in any case
WordsOf(t) ==
    { ow \in OrdinalWords \X WeekdayWords :
        /\ Len(t) > Len(ow[1]) + Len(ow[2])
        /\ Lower(SubSeq(t, 1, Len(ow[1]))) = ow[1]
        /\ Lower(SubSeq(t, Len(t) - Len(ow[2]) + 1, Len(t))) = ow[2]
        /\ \A k \in (Len(ow[1]) + 1)..(Len(t) - Len(ow[2])) : t[k] \in Whitespace }

\* the grammar: an ordinal, whitespace, a weekday name, and nothing else
InGrammar(t) == WordsOf(t) /= {}

\* "<position> <weekday>" in lower case with a single space
Canonical(t) ==
    LET ow == CHOOSE x \in WordsOf(t) : TRUE IN ow[1] \o <<" ">> \o ow[2]

RECURSIVE LStrip(_)
LStrip(t) == IF t /= <<>> /\ Head(t) \in Whitespace THEN LStrip(Tail(t)) ELSE t
RECURSIVE RStrip(_)
RStrip(t) ==
    IF t /= <<>> /\ t[Len(t)] \in Whitespace THEN RStrip(SubSeq(t, 1, Len(t) - 1)) ELSE t
\* the text without the whitespace around it
Strip(t) == RStrip(LStrip(t))

\* the single rule of a result of build_recurrence_rules
RuleOf(r) == Val(r).rules[1]

\* C6 as stated: the parser accepts a text exactly when it is an ordinal, whitespace
\* and a weekday name (in any case) with nothing before or after; every other text
\* raises the invalid-format error and no rule is produced.
C6_AcceptsExactlyTheGrammar ==
    (parseOut /= None /\ pattern /= None) =>
        (parseOut[1].ok <=> InGrammar(pattern[1]))

\* C6, what the parser does accept: the grammar, with or without one final newline.
C6_AcceptsGrammarOrFinalNewline ==
    (parseOut /= None /\ pattern /= None) =>
        LET t == pattern[1]
        IN  parseOut[1].ok <=>
                \/ InGrammar(t)
                \/ t /= <<>> /\ t[Len(t)] = "\n" /\ InGrammar(SubSeq(t, 1, Len(t) - 1))

\* C7 as stated: whitespace around the pattern is trimmed and whitespace inside it
\* collapsed: a text that is in the grammar once trimmed is accepted, with the "on"
\* value of the canonical text.
C7_TrimsAndCollapses ==
    (parseOut /= None /\ pattern /= None /\ InGrammar(Strip(pattern[1]))) =>
        /\ parseOut[1].ok
        /\ RuleOf(parseOut[1]).on = Canonical(Strip(pattern[1]))

\* C7 amended: whitespace inside the pattern is collapsed and whitespace around it is
\* not trimmed: a text of the grammar, with any positive amount of whitespace between
\* its two words, is accepted with the "on" value of the canonical text; a text that
\* is in the grammar only once trimmed is rejected, unless all that surrounds it is
\* one final newline.
C7_CollapsesButDoesNotTrim ==
    (parseOut /= None /\ pattern /= None) =>
        LET t == pattern[1]
        IN  /\ InGrammar(t) =>
                  /\ parseOut[1].ok
                  /\ RuleOf(parseOut[1]).on = Canonical(t)
            /\ (InGrammar(Strip(t)) /\ t /= Strip(t)) =>
                  (parseOut[1].ok <=> t = Strip(t) \o <<"\n">>)

\* C7 witness: a pattern with two whitespace characters inside has been accepted
C7_Witness ==
    /\ pattern = Some(<<"L", "A", "S", "T", " ", "\t", "f", "r", "i", "d", "a", "y">>)
    /\ parseOut /= None /\ parseOut[1].ok
    /\ RuleOf(parseOut[1]).on = <<"l", "a", "s", "t", " ", "f", "r", "i", "d", "a", "y">>

\* C8: the recurrence_day of every event the mapper makes, from the explicit fields
\* or from the start date, is accepted by build_recurrence_rules, and "on" is that
\* recurrence_day in lower case: the same position and the same weekday.
C8_FormatThenParse ==
    rulesOut /= None =>
        LET event == Val(mapOut[1]).event[1]
            r == rulesOut[1]
        IN  /\ r.ok
            /\ RuleOf(r).on = Lower(event.recurrence_day)
            /\ HasExplicitPattern(meeting) =>
                  RuleOf(r).on = POSITION_MAP[meeting.monthly_week] \o <<" ">>
                                    \o Lower(WEEKDAY_MAP[meeting.monthly_week_day])
            /\ ~HasExplicitPattern(meeting) =>
                  LET d == Val(strptime_date(meeting.start_date))
                  IN  RuleOf(r).on = derived_position(d) \o <<" ">>
                                        \o Lower(DayNames[Weekday(d.y, d.m, d.d) + 1])

\* C8 witness: a derived "fourth Wednesday" and an explicit "last Saturday" have both
\* gone through the parser (two states; this is the derived one)
C8_Witness ==
    /\ rulesOut /= None /\ rulesOut[1].ok
    /\ ~HasExplicitPattern(meeting)
    /\ meeting.start_date = <<"2", "0", "2", "6", "-", "0", "4", "-", "2", "2">>
    /\ RuleOf(rulesOut[1]).on = <<"f", "o", "u", "r", "t", "h", " ", "w", "e", "d", "n", "e",
                                  "s", "d", "a", "y">>

\* C9: in the payload of parse_recurrence_config, end_date (when the record has one)
\* gives end_date_time and no end_times, also when the record has occurrences;
\* otherwise occurrences gives end_times and no end_date_time; otherwise neither.
C9_EndPrecedence ==
    (zoomOut /= None /\ zoomOut[1].ok) =>
        LET p == Val(zoomOut[1])
        IN  /\ ~({"end_date_time", "end_times"} \subseteq DOMAIN p)
            /\ IF "end_date" \in DOMAIN meeting
               THEN /\ "end_date_time" \in DOMAIN p /\ "end_times" \notin DOMAIN p
                    /\ p.end_date_time = meeting.end_date \o <<"T", "0", "0", ":", "0", "0",
                                                  ":", "0", "0", "Z">>
               ELSE IF "occurrences" \in DOMAIN meeting
               THEN /\ "end_times" \in DOMAIN p /\ "end_date_time" \notin DOMAIN p
                    /\ p.end_times = meeting.occurrences
               ELSE "end_times" \notin DOMAIN p /\ "end_date_time" \notin DOMAIN p

\* C9 witness: a record with end_date and occurrences has got end_date_time
C9_Witness ==
    /\ zoomOut /= None /\ zoomOut[1].ok
    /\ {"end_date", "occurrences"} \subseteq DOMAIN meeting
    /\ "end_date_time" \in DOMAIN Val(zoomOut[1])

\* C10: the payload of a monthly record has monthly_day alone, or monthly_week with
\* monthly_week_day, never both groups and never neither: the week pair exactly when
\* the record has both of its fields (monthly_day is then left out), monthly_day
\* otherwise, from the record's monthly_day or else the day of its start date.
C10_MonthlyGroupsExclusive ==
    (zoomOut /= None /\ zoomOut[1].ok /\ Lower(Get(meeting, "recurrence_type", S_weekly)) = S_monthly) =>
        LET p == Val(zoomOut[1])
            week == {"monthly_week", "monthly_week_day"}
        IN  IF week \subseteq DOMAIN meeting
            THEN /\ week \subseteq DOMAIN p /\ "monthly_day" \notin DOMAIN p
                 /\ p.monthly_week = meeting.monthly_week
                 /\ p.monthly_week_day = meeting.monthly_week_day
            ELSE /\ week \cap DOMAIN p = {} /\ "monthly_day" \in DOMAIN p
                 /\ p.monthly_day =
                        IF "monthly_day" \in DOMAIN meeting THEN meeting.monthly_day
                        ELSE ParseNat(SubSeq(meeting.start_date, 9, 10))

\* C10 witness: a record with monthly_day and both week fields got the week pair only
C10_Witness ==
    /\ zoomOut /= None /\ zoomOut[1].ok
    /\ {"monthly_day", "monthly_week", "monthly_week_day"} \subseteq DOMAIN meeting
    /\ Get(meeting, "recurrence_type", S_weekly) = S_monthly
    /\ "monthly_day" \notin DOMAIN Val(zoomOut[1])
    /\ "monthly_week" \in DOMAIN Val(zoomOut[1])

\* C11: build_recurrence_rules returns exactly one rule, and the rule always has
\* end_type: "On" with `end` equal to the given end date when one is given, "never"
\* without `end` when end_date is absent or empty; `end` is there exactly when
\* end_type is "On".
C11_EndTypeAlwaysThere ==
    (parseOut /= None /\ parseOut[1].ok) =>
        LET rules == Val(parseOut[1]).rules
            rule == rules[1]
            supplied == endDate /= None /\ endDate[1] /= <<>>
        IN  /\ DOMAIN Val(parseOut[1]) = {"rules"}
            /\ Len(rules) = 1
            /\ "end_type" \in DOMAIN rule
            /\ supplied => rule["end_type"] = S_On /\ "end" \in DOMAIN rule
                                /\ rule["end"] = endDate[1]
            /\ ~supplied => rule["end_type"] = S_never /\ "end" \notin DOMAIN rule
            /\ "end" \in DOMAIN rule <=> rule["end_type"] = S_On

\* C11 witness: a rule was built from an event_data whose end_date is the empty text
C11_Witness ==
    /\ endDate = Some(<<>>)
    /\ pattern = Some(<<"l", "a", "s", "t", " ", "f", "r", "i", "d", "a", "y">>)
    /\ parseOut /= None /\ parseOut[1].ok
    /\ RuleOf(parseOut[1])["end_type"] = S_never

\* C12 as stated: a monthly meeting record with neither end_date nor occurrences,
\* mapped by map_meeting_to_event and then given to build_recurrence_rules, gets a
\* rule that never ends: end_type "never" and no `end`.
C12_NoEndMeansNever ==
    (/\ rulesOut /= None /\ rulesOut[1].ok
     /\ "end_date" \notin DOMAIN meeting
     /\ "occurrences" \notin DOMAIN meeting) =>
        /\ RuleOf(rulesOut[1])["end_type"] = S_never
        /\ "end" \notin DOMAIN RuleOf(rulesOut[1])

\* C13: WEEKDAY_MAP is a one-to-one table from 1..7 onto the seven weekday names, and
\* the weekly_days that parse_recurrence_config derives from the start date of a
\* weekly meeting is one number of 1..7 that WEEKDAY_MAP takes to the weekday name of
\* that date, whatever the weekday.
C13_WeekdayNumberRoundTrip ==
    /\ DOMAIN WEEKDAY_MAP = 1..7
    /\ \A i, j \in 1..7 : WEEKDAY_MAP[i] = WEEKDAY_MAP[j] => i = j
    /\ {WEEKDAY_MAP[i] : i \in 1..7} = {DayNames[k] : k \in 1..7}
    /\ weeklyOut /= None =>
          /\ weeklyOut[1].ok
          /\ LET weekly_days == Val(weeklyOut[1])["weekly_days"]
             IN  /\ Len(weekly_days) = 1 /\ IsDigit(weekly_days[1])
                 /\ DigitVal(weekly_days[1]) \in 1..7
                 /\ WEEKDAY_MAP[DigitVal(weekly_days[1])] = DayNames[calDow + 1]

\* C13 witness: the weekly_days of a Sunday, the day the conversion wraps around
C13_Witness ==
    /\ calDow = 6
    /\ weeklyOut /= None /\ weeklyOut[1].ok
    /\ Val(weeklyOut[1])["weekly_days"] = <<"1">>
    /\ WEEKDAY_MAP[1] = <<"S", "u", "n", "d", "a", "y">>

\* the value of field k by the three tiers: the event's, else the configuration's,
\* else the default
ThreeTier(k, dflt) ==
    IF k \in DOMAIN eventData THEN eventData[k]
    ELSE IF k \in DOMAIN globalConfig THEN globalConfig[k]
    ELSE dflt

\* C18: in the payload of either WordPress builder, status and timezone are each the
\* event's value when the event has the field, else the global configuration's when
\* it has the field, else "draft" / "America/New_York"; the timezone text is copied
\* as it is, and neither field depends on the other.
C18_ThreeTierDefaults ==
    \A out \in {recurringOut, eventsOut} :
        (out /= None /\ out[1].ok) =>
            /\ Val(out[1])["status"] = ThreeTier("status", <<"d", "r", "a", "f", "t">>)
            /\ Val(out[1])["timezone"] = ThreeTier("timezone", <<"A", "m", "e", "r", "i", "c",
                                                  "a", "/", "N", "e", "w", "_", "Y", "o", "r",
                                                  "k">>)

\* C18 witness: both builders ran on an event that has a timezone and no status,
\* under a configuration that has both
C18_Witness ==
    /\ "status" \notin DOMAIN eventData
    /\ "timezone" \in DOMAIN eventData /\ eventData["timezone"] = <<"A", "m", "e", "r", "i",
                                                  "c", "a", "/", "C", "h", "i", "c", "a", "g", "o">>
    /\ DOMAIN globalConfig = {"status", "timezone"}
    /\ globalConfig["status"] = <<"p", "u", "b", "l", "i", "s",
                                  "h">> /\ globalConfig["timezone"] = <<"U", "T", "C">>
    /\ recurringOut /= None /\ recurringOut[1].ok
    /\ eventsOut /= None /\ eventsOut[1].ok
    /\ Val(recurringOut[1])["status"] = <<"p", "u", "b", "l", "i", "s", "h">>
    /\ Val(eventsOut[1])["timezone"] = <<"A", "m", "e", "r", "i", "c", "a", "/", "C", "h", "i",
                                         "c", "a", "g", "o">>

\* the requests that leave the machine
HttpOps == {"token", "user", "create", "retry"}
\* the positions of the log where a creation request was sent
CreationCalls == {k \in 1..Len(log) : log[k].op \in {"create", "retry"}}

\* C14: in a dry run none of the three batch creators sends a request (token, user
\* lookup or creation), and the Zoom creator appends nothing to the CSV file, whatever
\* the configuration and the verbose flag.
C14_DryRunSendsNothing ==
    dryRun =>
        /\ \A k \in 1..Len(log) : log[k].op \notin HttpOps
        /\ csv = <<>>
        /\ token = FALSE

\* C14 witness: a verbose dry run of the Zoom creator has gone through two meetings
C14_Witness ==
    /\ script = "zoom" /\ dryRun /\ verbose
    /\ Len(Records) = 2 /\ at = 3 /\ cpc = "done"
    /\ \A i \in 1..2 : Truthy(Records[i], "host_email")

\* C15 as stated: in a real run of the Zoom creator no failure on one meeting (token,
\* HTTP error, payload, anything else) ends the batch: when the run is over, no
\* meeting with a host_email is left after the one it stopped at.
C15_FailureDoesNotAbort ==
    (/\ script = "zoom" /\ ~dryRun
     /\ \A k \in {"account_id", "client_id", "client_secret"} :
            Truthy(config["zoom_api"], k)
     /\ cpc \in {"done", "exit1", "crashed"}) =>
        \A i \in (at + 1)..Len(Records) : ~Truthy(Records[i], "host_email")

\* C16 as stated: in a real run of any batch creator, between the creation request of
\* one record and the creation request of a later record there is a sleep, whether
\* the first request succeeded or failed.
C16_SleepBetweenCreations ==
    ~dryRun =>
        \A i, j \in CreationCalls :
            (i < j /\ log[i].rec /= log[j].rec) =>
                \E k \in (i + 1)..(j - 1) : log[k].op = "sleep"

\* recurrence_day is not "<ordinal> <weekday>"
Malformed(event_data) == ~build_recurrence_rules(event_data).ok

\* C17 as stated: create_recurring_event_series takes the events one by one, each
\* exactly once; an event with a malformed recurrence_day is counted as a failure and
\* no creation request is sent for it; no event stops the loop; at the end
\* success_count + failure_count is the number of events.
C17_EveryEventCountedOnce ==
    script = "series" =>
        /\ cpc \in {"start", "loop", "done"}
        /\ successCount + failureCount = at - 1
        /\ cpc = "done" => at - 1 = Len(Records)
        /\ failureCount >= Cardinality({i \in 1..(at - 1) : Malformed(Records[i])})
        /\ \A k \in CreationCalls : ~Malformed(Records[log[k].rec])

\* C19: no step writes to the record or payload it was given: applying
\* default_password, parse_recurrence_config, map_meeting_to_event and the retry
\* without organizer of create_event leave the caller's dicts as they were; what they
\* write goes to a copy or to a new dict.
C19_InputsReadOnly ==
    [][Len(heap) >= 2 => (heap'[1] = heap[1] /\ heap'[2] = heap[2])]_vars

\* C19 witness: the four steps ran, the copy got the default password and the retry
\* payload lost its organizer, and the caller's dicts have neither change
C19_Witness ==
    /\ ran = {"default_password", "parse_recurrence_config", "map_meeting_to_event",
              "create_event"}
    /\ "password" \notin DOMAIN heap[1]
    /\ "organizer" \in DOMAIN heap[2]
    /\ \E i \in 3..Len(heap) : "password" \in DOMAIN heap[i] /\ heap[i]["password"] = <<"p", "w">>
    /\ \E i \in 3..Len(heap) :
          DOMAIN heap[i] = DOMAIN heap[2] \ {"organizer"}

\* what the batch has recorded for meeting number i: its event if any, and the kind
\* and text of its warnings
Recorded(i) ==
    [event |-> {events[k] : k \in {x \in 1..Len(events) : eventFrom[x] = i}},
     warning |-> {<<warnings[k].kind, warnings[k].text>> : k \in WarningsOf(i)}]

\* what meeting number i gets when it is translated alone
Alone(i) ==
    LET r == Val(Outcome(i))
    IN  [event |-> IF r.event = None THEN {} ELSE {r.event[1]},
         warning |-> IF r.warning = None THEN {}
                     ELSE {<<IF r.event = None THEN "Skipped" ELSE "Mapped", r.warning[1]>>}]

\* C20 as stated: the outcome of a meeting record (event or skip, and warning) depends
\* on that record and the default timezone only: once the run is over, every record
\* that translates on its own has in the batch the outcome it has alone, whatever the
\* other records of the batch are, and two equal records have the same outcome.
C20_RecordIndependence ==
    pc \in {"done", "crashed"} =>
        /\ \A i \in 1..Len(meetings) : Outcome(i).ok => Recorded(i) = Alone(i)
        /\ \A i, j \in 1..Len(meetings) :
              meetings[i] = meetings[j] => Recorded(i) = Recorded(j)


(* --- the rule schema, the recurrence type and the deriver's positions ------- *)

\* C21 as stated: the program's rule builder emits a structured rule: type "Custom"
\* with a `custom` block of type "Monthly" whose month names the position as a
\* number (1..4, or -1 for last) and the weekday in upper case; the end block
\* ("end-type": "On" and `end`) is there when an end date is given and is left out
\* entirely when none is.
C21_StructuredPositionRule ==
    (parseOut /= None /\ parseOut[1].ok) =>
        LET result == Val(parseOut[1])
            rule == result.rules[1]
            supplied == endDate /= None /\ endDate[1] /= <<>>
        IN  /\ rule["type"] = <<"C", "u", "s", "t", "o", "m">>
            /\ "custom" \in DOMAIN rule
            /\ rule["custom"]["type"] = <<"M", "o", "n", "t", "h", "l", "y">>
            /\ rule["custom"]["month"]["number"] \in {1, 2, 3, 4, -1}
            /\ rule["custom"]["month"]["day"] = Upper(rule["custom"]["month"]["day"])
            /\ supplied => /\ result["end-type"] = S_On
                           /\ result["end"] = endDate[1]
            /\ ~supplied => /\ DOMAIN result \cap {"end-type", "end", "end_type"} = {}
                            /\ DOMAIN rule \cap {"end-type", "end", "end_type"} = {}

\* C22: the recurrence object parse_recurrence_config returns has type 1, 2 or 3:
\* 3 exactly when the lower-cased recurrence_type is "monthly", 2 exactly when it is
\* "weekly" or the record has none, and so 1 for "daily" and for every other value;
\* weekly_days is there only with type 2, and monthly_day, monthly_week and
\* monthly_week_day only with type 3.
C22_TypeFollowsRecurrenceType ==
    (zoomOut /= None /\ zoomOut[1].ok) =>
        LET recurrence == Val(zoomOut[1])
            said == "recurrence_type" \in DOMAIN meeting
            lowered == IF said THEN Lower(meeting.recurrence_type) ELSE <<>>
        IN  /\ recurrence["type"] \in {1, 2, 3}
            /\ recurrence["type"] = 3 <=> (said /\ lowered = <<"m", "o", "n", "t", "h", "l", "y">>)
            /\ recurrence["type"] = 2 <=> (~said \/ lowered = <<"w", "e", "e", "k", "l", "y">>)
            /\ "weekly_days" \in DOMAIN recurrence => recurrence["type"] = 2
            /\ DOMAIN recurrence \cap {"monthly_day", "monthly_week", "monthly_week_day"} /= {}
                    => recurrence["type"] = 3

\* C22 witness: a record without recurrence_type, with the ordinal fields of a
\* monthly meeting, got type 2 and weekly_days, and none of the monthly fields
C22_Witness ==
    /\ "recurrence_type" \notin DOMAIN meeting
    /\ "monthly_week" \in DOMAIN meeting /\ "monthly_week_day" \in DOMAIN meeting
    /\ zoomOut /= None /\ zoomOut[1].ok
    /\ Val(zoomOut[1])["type"] = 2
    /\ "weekly_days" \in DOMAIN Val(zoomOut[1])
    /\ "monthly_week" \notin DOMAIN Val(zoomOut[1])

(* --- the organizer-fallback retry of create_event ---------------------------- *)

\* the POSTs sent for event i, in order, and what create_event returned for it
PostsOf(i) == SelectSeq(posted, LAMBDA p : p.rec = i)
ReportsOf(i) == {reported[k] : k \in {j \in 1..Len(reported) : reported[j].rec = i}}

\* at most two POSTs for an event, the second only after "could-not-create-organizer"
\* for a payload with an organizer, and with that payload less its organizer
RetryOnlyForOrganizer(i) ==
    LET posts == PostsOf(i)
    IN  /\ Len(posts) <= 2
        /\ Len(posts) = 2 =>
              /\ posts[1].answer = "organizer refused"
              /\ "organizer" \in DOMAIN posts[1].payload
              /\ DOMAIN posts[2].payload = DOMAIN posts[1].payload \ {"organizer"}
              /\ \A k \in DOMAIN posts[2].payload : posts[2].payload[k] = posts[1].payload[k]

\* C23 as stated: create_event sends at most two POSTs for an event, the second only
\* after the first was answered with a status other than 200/201 and the code
\* "could-not-create-organizer" for a payload with an organizer, and with the payload
\* less its organizer; the event counts as created exactly when one of the two
\* answers is 200/201, and otherwise the error reported is that of the first response.
C23_RetryProtocol ==
    script = "events" =>
        \A i \in 1..Len(Records) :
            /\ RetryOnlyForOrganizer(i)
            /\ \A r \in ReportsOf(i) :
                  LET posts == PostsOf(i)
                  IN  /\ r.created <=> \E k \in 1..Len(posts) : posts[k].answer \in Answers2xx
                      /\ ~r.created => r.error = "HTTP of response 1"

\* C23 amended: the POSTs are as stated; whenever create_event returns, the event
\* counts as created exactly when one of the two answers is 200/201 with an id, and
\* otherwise the error reported is None when the last answer was 200/201 without an
\* id, the text of the exception when the last request raised one, and the status and
\* text of the first response when the last answer had another status.
C23_RetryProtocolWithIdAndExceptions ==
    script = "events" =>
        \A i \in 1..Len(Records) :
            /\ RetryOnlyForOrganizer(i)
            /\ \A r \in ReportsOf(i) :
                  LET posts == PostsOf(i)
                      n == Len(posts)
                  IN  /\ n >= 1
                      /\ r.created <=> \E k \in 1..n : posts[k].answer = "created"
                      /\ ~r.created =>
                            r.error = IF posts[n].answer = "no id" THEN "None"
                                      ELSE IF posts[n].answer \in {"no answer", "bad body"}
                                      THEN IF n = 1 THEN "exception of request 1"
                                                    ELSE "exception of request 2"
                                      ELSE "HTTP of response 1"

\* C23 witness: an event was created by the second POST, sent without the organizer
\* after the first was refused for the organizer
C23_Witness ==
    /\ script = "events"
    /\ \E r \in {reported[k] : k \in 1..Len(reported)} :
          /\ r.created
          /\ Len(PostsOf(r.rec)) = 2
          /\ PostsOf(r.rec)[1].answer = "organizer refused"
          /\ PostsOf(r.rec)[2].answer = "created"
          /\ "organizer" \notin DOMAIN PostsOf(r.rec)[2].payload

-----------------------------------------------------------------------------
(* generate_wp_events_config.py: the events configuration made from the    *)
(* Zoom configuration and the CSV of the meetings created.                 *)

\* calculate_end_time that stops at the ends of the day instead of wrapping
calculate_end_time_stops_at_midnight(start_time, duration_minutes) ==
    LET start_dt == strptime_time(start_time)
    IN  IF ~start_dt.ok THEN start_dt
        ELSE LET t == Val(start_dt)
                 end_secs == t.h * 3600 + t.m * 60 + t.s + 60 * duration_minutes
             IN  Ok(strftime_time(IF end_secs >= 86400 THEN 86399
                                  ELSE IF end_secs < 0 THEN 0 ELSE end_secs))

\* strptime, + timedelta(minutes=...), strftime("%H:%M:%S"): the date of the sum is
\* not printed, the time of day is
calculate_end_time(start_time, duration_minutes) ==
    LET start_dt == strptime_time(start_time)
    IN  IF ~start_dt.ok THEN start_dt
        ELSE LET t == Val(start_dt)
                 end_secs == t.h * 3600 + t.m * 60 + t.s + 60 * duration_minutes
             IN  Ok(strftime_time(end_secs % 86400))

(* --- the generator: registration links, events, and their validation -------- *)

\* meeting.get("duration", 60)
DefaultGeneratorDuration == 60
\* rows of the CSV of created meetings
MaxRows == 2

\* the text of DESCRIPTION_TEMPLATE before, between and after its two fields
DESCRIPTION_TEMPLATE ==
    <<"<div class=\"registration-container\">\n<h2 class=\"headline\">",
      "cluster_name",
      " 2026 Registration</h2>\n<p class=\"registration-note\"><strong>ESIP meetings are open to all</strong> who wish to participate and contribute. To ensure a secure and collaborative environment for all attendees, <strong>registration is required</strong> for each meeting series. Once registered, you will have immediate access to the join links for all upcoming sessions.</p>\n<a class=\"my-custom-button\" href=\"",
      "registration_url",
      "\">Click to register for the series</a>\n<p class=\"footer-note\">After registering, Zoom will email you a confirmation with a calendar invitation for the entire series. Use the <strong>\"Add to Calendar\"</strong> link to save the dates and your unique join link. <strong>Note:</strong> If a meeting time changes, you will receive an updated email. Because Zoom cannot auto-update your private calendar, please delete the old entry and use the new link to refresh your schedule.</p>\n<p class=\"annual-reset-note\"><strong>Note on Annual Registration:</strong> Your registration is valid for all meetings within the <strong>current calendar year</strong>. To maintain a secure environment and ensure our community lists are up-to-date, we perform an annual reset each January. You will be invited to re-register for your preferred Collaboration Areas at the start of the new year.</p>\n\n</div>">>

\* DESCRIPTION_TEMPLATE.format(...): the template with its two fields filled in
format_description(cluster_name, registration_url) ==
    [i \in 1..5 |-> IF DESCRIPTION_TEMPLATE[i] = "cluster_name" THEN cluster_name
                    ELSE IF DESCRIPTION_TEMPLATE[i] = "registration_url" THEN registration_url
                    ELSE DESCRIPTION_TEMPLATE[i]]

\* a match of \s*-\s*2026\s*$ that takes the whole text
IsYearSuffix(t) ==
    LET a == LStrip(t)
        b == IF a = <<>> THEN <<>> ELSE LStrip(Tail(a))
    IN  /\ a /= <<>> /\ a[1] = "-"
        /\ Len(b) >= 4 /\ SubSeq(b, 1, 4) = <<"2", "0", "2", "6">>
        /\ LStrip(SubSeq(b, 5, Len(b))) = <<>>

\* re.sub(r"\s*-\s*2026\s*$", "", topic).strip(): the leftmost match is cut off
clean_title(topic) ==
    LET starts == {i \in 1..Len(topic) : IsYearSuffix(SubSeq(topic, i, Len(topic)))}
    IN  IF starts = {} THEN Strip(topic)
        ELSE Strip(SubSeq(topic, 1, (CHOOSE i \in starts : \A j \in starts : i <= j) - 1))

\* the lookup after the first n rows: rows without a topic or a URL are passed over,
\* the others append their URL to the list of their topic
RECURSIVE lookup_after(_, _)
lookup_after(csv_rows, n) ==
    IF n = 0 THEN <<>>
    ELSE LET before == lookup_after(csv_rows, n - 1)
             row == csv_rows[n]
             topic == Strip(Get(row, "meeting_topic", <<>>))
             url == Strip(Get(row, "registration_url", <<>>))
         IN  IF topic = <<>> \/ url = <<>> THEN before
             ELSE (topic :> Append(Get(before, topic, <<>>), url)) @@ before

build_registration_lookup(csv_rows) == lookup_after(csv_rows, Len(csv_rows))

\* get_registration_url that starts again at the first URL after the last
get_registration_url_wraps_around(topic, registration_lookup, usage_) ==
    LET urls == Get(registration_lookup, topic, <<>>)
        count == Get(usage_, topic, 0)
    IN  IF urls = <<>> THEN [url |-> <<>>, usage |-> usage_]
        ELSE [url |-> urls[(count % Len(urls)) + 1],
              usage |-> (topic :> (count + 1)) @@ usage_]

\* the URL for the next meeting of a topic, and the usage dict after the call
get_registration_url(topic, registration_lookup, usage_) ==
    LET urls == Get(registration_lookup, topic, <<>>)
        count == Get(usage_, topic, 0)
        index_ == IF count >= Len(urls) THEN Len(urls) - 1 ELSE count
    IN  IF urls = <<>> THEN [url |-> <<>>, usage |-> usage_]
        ELSE [url |-> urls[index_ + 1], usage |-> (topic :> (count + 1)) @@ usage_]

S_your_site == <<"h", "t", "t", "p", "s", ":", "/", "/", "y", "o", "u", "r", "-", "s", "i", "t",
                 "e", ".", "c", "o", "m">>
S_admin == <<"a", "d", "m", "i", "n">>
S_your_password == <<"y", "o", "u", "r", "-", "a", "p", "p", "l", "i", "c", "a", "t", "i", "o",
                     "n", "-", "p", "a", "s", "s", "w", "o", "r", "d", "-", "h", "e", "r", "e">>

\* the first event of the template without the six keys every event sets itself
event_defaults(template_config) ==
    LET template_events == Get(template_config, "events", <<>>)
        first == IF template_events = <<>> THEN <<>> ELSE template_events[1]
    IN  [k \in DOMAIN first \ {"title", "description", "start_date", "end_date", "start_time",
                               "end_time"} |-> first[k]]

\* the output of build_output_config, but for its events
output_config(template_config) ==
    [wordpress_url |-> Get(template_config, "wordpress_url", S_your_site),
     username |-> Get(template_config, "username", S_admin),
     app_password |-> Get(template_config, "app_password", S_your_password),
     status |-> Get(template_config, "status", S_draft),
     timezone |-> Get(template_config, "timezone", S_America_New_York)]

\* the body of the loop of build_output_config for a meeting with a topic: the
\* exception of int() or of calculate_end_time, or the event and the usage after it
output_event(meeting_, topic, template_config, registration_lookup, usage_) ==
    LET start_date == Strip(Get(meeting_, "start_date", <<>>))
        given_time == Strip(Get(meeting_, "start_time", <<>>))
        start_time == IF given_time = <<>> THEN S_default_start_time ELSE given_time
        duration == int(Get(meeting_, "duration", Num(DefaultGeneratorDuration)))
        event_title == clean_title(topic)
        registration == get_registration_url(topic, registration_lookup, usage_)
        end_time == IF duration.ok THEN calculate_end_time(start_time, Val(duration))
                    ELSE duration
    IN  IF ~duration.ok THEN [ok |-> FALSE, event |-> <<>>, usage |-> usage_]
        ELSE IF ~end_time.ok THEN [ok |-> FALSE, event |-> <<>>, usage |-> registration.usage]
        ELSE [ok |-> TRUE,
              event |-> ("title" :> event_title)
                  @@ ("description" :> format_description(event_title, registration.url))
                  @@ ("start_date" :> start_date)
                  @@ ("end_date" :> start_date)
                  @@ ("start_time" :> start_time)
                  @@ ("end_time" :> Val(end_time))
                  @@ ("timezone" :> Get(meeting_, "timezone",
                                        output_config(template_config).timezone))
                  @@ event_defaults(template_config),
              usage |-> registration.usage]

\* validate_date, validate_time and parse_datetime of create_events.py
validate_date(value) == strptime_date(value).ok
validate_time(value) == strptime_time(value).ok
parse_datetime(date_value, time_value) ==
    LET d == strptime_date(date_value)
        t == strptime_time(time_value)
    IN  IF d.ok /\ t.ok
        THEN Some([day |-> ToOrdinal(Val(d).y, Val(d).m, Val(d).d),
                   secs |-> Val(t).h * 3600 + Val(t).m * 60 + Val(t).s])
        ELSE None

\* the checks validate_config of create_events.py makes on one event
event_is_valid(event) ==
    /\ {"title", "start_date", "end_date", "start_time", "end_time"} \subseteq DOMAIN event
    /\ validate_date(event["start_date"])
    /\ validate_date(event["end_date"])
    /\ validate_time(event["start_time"])
    /\ validate_time(event["end_time"])
    /\ LET start_dt == parse_datetime(event["start_date"], event["start_time"])
           end_dt == parse_datetime(event["end_date"], event["end_time"])
       IN  /\ start_dt /= None /\ end_dt /= None
           /\ ~ (\/ end_dt[1].day < start_dt[1].day
                 \/ end_dt[1].day = start_dt[1].day /\ end_dt[1].secs <= start_dt[1].secs)

\* validate_config of create_events.py: the verdict, and the first event it rejects
events_validate_config(cfg, events_) ==
    LET rejected == {i \in 1..Len(events_) : ~event_is_valid(events_[i])}
    IN  [valid |-> /\ {"wordpress_url", "username", "app_password"} \subseteq DOMAIN cfg
                   /\ events_ /= <<>>
                   /\ rejected = {},
         rejected |-> IF rejected = {} THEN 0
                      ELSE CHOOSE i \in rejected : \A j \in rejected : i <= j]

(* --- main() of the generator, and create_events.py reading what it wrote ---- *)

\* rows of zoom_meetings_output.csv: two URLs of one topic, a URL of another with
\* whitespace around both cells, and a row whose URL cell is empty
CsvRows ==
    { ("meeting_topic" :> <<"A">>) @@ ("registration_url" :> <<"u", "1">>),
      ("meeting_topic" :> <<"A">>) @@ ("registration_url" :> <<"u", "2">>),
      ("meeting_topic" :> <<" ", "B", " ">>) @@ ("registration_url" :> <<" ", "u", "3", " ">>),
      ("meeting_topic" :> <<"A">>) @@ ("registration_url" :> <<>>) }

\* meetings that differ in their topic: two spellings of one topic, another topic,
\* and none
TopicMeetings ==
    { ("topic" :> t) @@ ("start_date" :> <<"2", "0", "2", "6", "-", "0", "3", "-", "0",
                                           "2">>) @@ ("start_time" :> <<"1", "0", ":", "0", "0",
                                           ":", "0", "0">>)
          @@ ("duration" :> Num(60)) :
      t \in { <<"A">>, <<" ", "A">>, <<"B">>, <<>> } }

\* meetings that differ in their date, time of day and duration
TimedMeetings ==
    Join2({"topic" :> <<"D", "a", "t", "a", " ", "H", "e", "l", "p", " ", "D", "e", "s", "k",
                        " ", "-", " ", "2", "0", "2", "6">>},
          Join4(Opt("start_date", { <<"2", "0", "2", "6", "-", "0", "3", "-", "0", "2">>, <<"2",
                                                  "0", "2", "6", "-", "0", "2", "-", "3", "0">> }),
                Opt("start_time", { <<"1", "0", ":", "0", "0", ":", "0", "0">>, <<"2", "3", ":",
                                                  "3", "0", ":", "0", "0">>, <<"n", "o", "o",
                                                  "n">> }),
                Opt("duration", { Num(1), Num(0), Num(60), Num(1440), Text(<<"4",
                                                  "5">>), Text(<<"a", "b", "c">>) }),
                Opt("timezone", { <<"U", "T", "C">> })))

\* the template: nothing, or a configuration with a timezone and one event
TemplateConfigs ==
    { <<>>,
      ("timezone" :> <<"U", "T", "C">>)
          @@ ("events" :> << ("title" :> <<"T">>) @@ ("venue" :> <<"V", "i", "r", "t", "u", "a",
                                                  "l">>)
                                @@ ("end_date" :> <<"2", "0", "2", "6", "-", "0", "1", "-", "0",
                                                  "1">>) >>) }

InitGenerate ==
    /\ \/ /\ template = <<>>
          /\ csvRows \in Lists(CsvRows, MaxRows)
          /\ zoomMeetings \in Lists(TopicMeetings, MaxMeetings)
       \/ /\ template \in TemplateConfigs
          /\ csvRows = <<>>
          /\ zoomMeetings \in {<<m>> : m \in TimedMeetings}
    /\ lookup = <<>> /\ usage = <<>> /\ outEvents = <<>> /\ outFrom = <<>>
    /\ gi = 1 /\ gpc = "start" /\ validOut = None
    /\ IdleTranslators /\ IdleCreators /\ IdleTime

\* main() up to the loop of build_output_config
BuildLookup ==
    /\ gpc = "start"
    /\ lookup' = build_registration_lookup(csvRows)
    /\ gpc' = IF zoomMeetings = <<>> THEN "done" ELSE "loop"
    /\ UNCHANGED <<template, csvRows, zoomMeetings, usage, outEvents, outFrom, gi, validOut,
                   translatorVars, creatorVars, timeVars>>

\* one meeting of the loop: passed over without a topic; an exception ends main()
\* with exit status 1 and nothing written; else its event is appended
OutputIteration ==
    /\ gpc = "loop"
    /\ LET meeting_ == zoomMeetings[gi]
           topic == Strip(Get(meeting_, "topic", <<>>))
           made == output_event(meeting_, topic, template, lookup, usage)
           next == IF gi = Len(zoomMeetings) THEN "done" ELSE "loop"
       IN  IF topic = <<>>
           THEN gi' = gi + 1 /\ gpc' = next /\ UNCHANGED <<usage, outEvents, outFrom>>
           ELSE IF ~made.ok
           THEN gpc' = "failed" /\ usage' = made.usage /\ UNCHANGED <<gi, outEvents, outFrom>>
           ELSE /\ outEvents' = Append(outEvents, made.event)
                /\ outFrom' = Append(outFrom, gi)
                /\ usage' = made.usage
                /\ gi' = gi + 1 /\ gpc' = next
    /\ UNCHANGED <<template, csvRows, zoomMeetings, lookup, validOut,
                   translatorVars, creatorVars, timeVars>>

\* create_events.py validating the configuration that was written
ValidateOutput ==
    /\ gpc = "done" /\ validOut = None
    /\ validOut' = Some(events_validate_config(output_config(template), outEvents))
    /\ UNCHANGED <<template, csvRows, zoomMeetings, lookup, usage, outEvents, outFrom, gi, gpc,
                   translatorVars, creatorVars, timeVars>>

NextGenerate == BuildLookup \/ OutputIteration \/ ValidateOutput
SpecGenerate == InitGenerate /\ [][NextGenerate]_vars

(* --- one start time and one duration through the two end-time functions ---- *)

\* times of day as HH:MM:SS, one without zero padding and three that are no time
ClockTexts ==
    {Fmt2(h) \o <<":">> \o Fmt2(m) \o <<":">> \o Fmt2(s) :
        h \in {0, 9, 12, 23}, m \in {0, 30, 59}, s \in {0, 59}}
        \cup { <<"9", ":", "5", ":", "0">>, <<"2", "5", ":", "0", "0", ":", "0", "0">>, <<"n",
                                                  "o", "o", "n">>, <<>> }
\* durations in minutes: none, short, past midnight, whole days and more, and negative
MinuteCounts == {-1441, -1440, -90, -1, 0, 1, 29, 30, 31, 60, 90, 1439, 1440, 1441, 2910}

InitTime ==
    /\ startTime \in ClockTexts
    /\ durationMinutes \in MinuteCounts
    /\ computeOut = None /\ calculateOut = None
    /\ IdleTranslators /\ IdleCreators /\ IdleGenerate

\* compute_end_time of the mapper
ComputeEndTime ==
    /\ computeOut = None
    /\ computeOut' = Some(compute_end_time(startTime, durationMinutes))
    /\ UNCHANGED <<startTime, durationMinutes, calculateOut, translatorVars, creatorVars,
                   genVars>>

\* calculate_end_time of the generator
CalculateEndTime ==
    /\ calculateOut = None
    /\ calculateOut' = Some(calculate_end_time(startTime, durationMinutes))
    /\ UNCHANGED <<startTime, durationMinutes, computeOut, translatorVars, creatorVars,
                   genVars>>

NextTime == ComputeEndTime \/ CalculateEndTime
SpecTime == InitTime /\ [][NextTime]_vars

\* a text of the shape HH:MM:SS that names a time of day, and its seconds after midnight
IsClock(t) ==
    /\ Len(t) = 8 /\ t[3] = ":" /\ t[6] = ":"
    /\ \A i \in {1, 2, 4, 5, 7, 8} : IsDigit(t[i])
    /\ DigitVal(t[1]) * 10 + DigitVal(t[2]) <= 23
    /\ DigitVal(t[4]) <= 5 /\ DigitVal(t[7]) <= 5
ClockSeconds(t) ==
    (DigitVal(t[1]) * 10 + DigitVal(t[2])) * 3600
        + (DigitVal(t[4]) * 10 + DigitVal(t[5])) * 60
        + DigitVal(t[7]) * 10 + DigitVal(t[8])

\* the end time is the start plus the duration, counted around the clock
WrapsAroundTheClock(out) ==
    (out /= None /\ IsClock(startTime)) =>
        /\ out[1].ok
        /\ IsClock(Val(out[1]))
        /\ LET total == ClockSeconds(startTime) + 60 * durationMinutes
               end == ClockSeconds(Val(out[1]))
           IN  /\ \E days \in -3..3 : total = days * 86400 + end
               /\ (durationMinutes \in 1..1439 /\ total >= 86400) => end < ClockSeconds(startTime)

\* C25: for every start time HH:MM:SS and every whole number of minutes, both
\* compute_end_time and calculate_end_time return the time of day that is
\* (start seconds + 60 * duration) mod 86400 seconds after midnight, as HH:MM:SS: a
\* meeting that runs past midnight gets an end time earlier than its start time, and
\* no date is carried.
C25_EndTimeWrapsAtMidnight ==
    WrapsAroundTheClock(computeOut) /\ WrapsAroundTheClock(calculateOut)

\* C25 witness: both functions took 23:30:00 and 60 minutes to 00:30:00
C25_Witness ==
    /\ startTime = <<"2", "3", ":", "3", "0", ":", "0", "0">> /\ durationMinutes = 60
    /\ computeOut = Some(Ok(<<"0", "0", ":", "3", "0", ":", "0", "0">>))
    /\ calculateOut = Some(Ok(<<"0", "0", ":", "3", "0", ":", "0", "0">>))

(* --- which registration link a meeting gets ---------------------------------- *)

\* the topic of meeting i as the loop reads it, and the URLs the CSV has for a topic,
\* in the order of its rows
TopicOf(i) == Strip(Get(zoomMeetings[i], "topic", <<>>))
UrlsOf(topic) ==
    LET rows == SelectSeq(csvRows,
                    LAMBDA r : /\ Strip(Get(r, "meeting_topic", <<>>)) = topic
                               /\ Strip(Get(r, "registration_url", <<>>)) /= <<>>)
    IN  [k \in 1..Len(rows) |-> Strip(rows[k]["registration_url"])]
\* meeting i is the RankOf(i)-th meeting of its topic
RankOf(i) == Cardinality({h \in 1..i : TopicOf(h) = TopicOf(i)})
\* the registration URL in the description of an event
RegistrationUrlOf(event) == event["description"][4]

\* C24: the k-th meeting of a topic, in the order of the configuration, gets the k-th
\* URL the CSV has for that topic, in the order of its rows; meetings beyond the
\* number of URLs get the last one; a meeting whose topic has no URL gets the empty
\* text and no counter is made or advanced for it; and the counter of a topic counts
\* the meetings of that topic only.
C24_KthMeetingGetsKthUrl ==
    /\ \A j \in 1..Len(outEvents) :
          LET i == outFrom[j]
              urls == UrlsOf(TopicOf(i))
              k == RankOf(i)
          IN  RegistrationUrlOf(outEvents[j]) =
                  IF urls = <<>> THEN <<>>
                  ELSE IF k <= Len(urls) THEN urls[k] ELSE urls[Len(urls)]
    /\ gpc \in {"loop", "done"} =>
          \A t \in {TopicOf(i) : i \in 1..Len(zoomMeetings)} \cup DOMAIN usage :
              LET served == Cardinality({j \in 1..Len(outFrom) : TopicOf(outFrom[j]) = t})
              IN  IF UrlsOf(t) = <<>> \/ served = 0 THEN t \notin DOMAIN usage
                  ELSE usage[t] = served

\* C24 witness: three meetings of one topic, spelt with and without a space before
\* it, got the first URL, the second, and the second again
C24_Witness ==
    /\ Len(outEvents) = 3 /\ Len(zoomMeetings) = 3
    /\ zoomMeetings[2]["topic"] = <<" ", "A">>
    /\ TopicOf(1) = <<"A">> /\ TopicOf(2) = <<"A">> /\ TopicOf(3) = <<"A">>
    /\ RegistrationUrlOf(outEvents[1]) = <<"u", "1">>
    /\ RegistrationUrlOf(outEvents[2]) = <<"u", "2">>
    /\ RegistrationUrlOf(outEvents[3]) = <<"u", "2">>
    /\ usage[<<"A">>] = 3

(* --- the generated events before the validator of create_events.py --------- *)

\* a meeting with a date, a time of day and a duration of a minute or more
WellTimed(m) ==
    /\ "start_date" \in DOMAIN m /\ strptime_date(Strip(m["start_date"])).ok
    /\ "start_time" \in DOMAIN m /\ strptime_time(Strip(m["start_time"])).ok
    /\ LET duration == int(Get(m, "duration", Num(DefaultGeneratorDuration)))
       IN  duration.ok /\ Val(duration) >= 1

\* C29 as stated: every event build_output_config makes of a meeting with a
\* well-formed start_date and start_time and a duration of at least one minute is
\* accepted by validate_config of create_events.py: its end date-time is after its
\* start date-time.
C29_GeneratedEventsAreAccepted ==
    validOut /= None =>
        \A j \in 1..Len(outEvents) :
            WellTimed(zoomMeetings[outFrom[j]]) => validOut[1].rejected /= j

(* --- the positions the deriver gives to the days of a month ----------------- *)

\* the position word of a derived pattern: the text before its first space
PositionWordOf(text) ==
    LET first_space == CHOOSE i \in 1..Len(text) :
                           text[i] = " " /\ \A j \in 1..(i - 1) : text[j] /= " "
    IN  SubSeq(text, 1, first_space - 1)

\* C26: in every month the deriver calls exactly the final seven days "last" (so one
\* day for each weekday); "fourth" is given to the days from the 22nd to the eighth
\* day before the end, so to no day of a 28-day February; and a day that is not
\* "last" has a week number in 1..4, so the word "first" is given to the days 1..7
\* only and never as the fallback of the table lookup.
C26_PositionsWithinAMonth ==
    derived /= None =>
        /\ derived[1].ok
        /\ LET position == PositionWordOf(Val(derived[1]))
               month_days == MonthDays(cal.y, cal.m)
           IN  /\ position = <<"l", "a", "s", "t">> <=> cal.d \in (month_days - 6)..month_days
               /\ position = <<"f", "o", "u", "r", "t", "h">> <=> cal.d \in 22..(month_days - 7)
               /\ month_days = 28 => position /= <<"f", "o", "u", "r", "t", "h">>
               /\ position = <<"t", "h", "i", "r", "d">> <=> cal.d \in 15..21
               /\ position = <<"s", "e", "c", "o", "n", "d">> <=> cal.d \in 8..14
               /\ position = <<"f", "i", "r", "s", "t">> <=> cal.d \in 1..7

\* C26 witness: the 22nd of a 28-day February has been derived as "last", not "fourth"
C26_Witness ==
    /\ cal = [y |-> 2027, m |-> 2, d |-> 22]
    /\ MonthDays(cal.y, cal.m) = 28
    /\ derived = Some(Ok(<<"l", "a", "s", "t", " ", "M", "o", "n", "d", "a", "y">>))

(* --- the mapper and the Zoom builder on the same record --------------------- *)

\* C27 as stated: the mapper and the Zoom builder read every record the same way:
\* map_recurrence_day gives an ordinal-weekday pattern exactly when
\* parse_recurrence_config gives type 3 with monthly_week and monthly_week_day, and
\* the pattern then names the position and the weekday of those two fields; so a
\* record without recurrence_type, and a monthly record without the ordinal fields,
\* are monthly-by-ordinal for both or for neither.
C27_MapperAgreesWithZoomBuilder ==
    (recDayOut /= None /\ zoomOut /= None) =>
        LET mapped == recDayOut[1].ok /\ Val(recDayOut[1]).day /= None
            ordinal == /\ zoomOut[1].ok
                       /\ Val(zoomOut[1])["type"] = 3
                       /\ {"monthly_week", "monthly_week_day"} \subseteq DOMAIN Val(zoomOut[1])
        IN  /\ mapped <=> ordinal
            /\ mapped =>
                  LET recurrence == Val(zoomOut[1])
                  IN  /\ recurrence["monthly_week"] \in DOMAIN POSITION_MAP
                      /\ recurrence["monthly_week_day"] \in DOMAIN WEEKDAY_MAP
                      /\ Val(recDayOut[1]).day[1] =
                             POSITION_MAP[recurrence["monthly_week"]] \o <<" ">>
                                 \o WEEKDAY_MAP[recurrence["monthly_week_day"]]

(* --- the end of the series in a validated configuration --------------------- *)

\* C28: for every configuration that validate_config of create_recurring_events.py
\* accepts, the payload built for an event has one rule, with end_type "On" and `end`
\* equal to the end_date of the event as written; the "never" branch is not taken,
\* because validation asks for an end_date that is a date.
C28_ValidatedSeriesEndOn ==
    (validated = Some(TRUE) /\ recurringOut /= None /\ recurringOut[1].ok) =>
        LET rules == Val(recurringOut[1])["recurrence"].rules
        IN  /\ Len(rules) = 1
            /\ \A i \in 1..Len(rules) :
                  /\ rules[i]["end_type"] = S_On
                  /\ rules[i]["end_type"] /= S_never
                  /\ "end" \in DOMAIN rules[i]
                  /\ rules[i]["end"] = eventData["end_date"]

\* C28 witness: a validated event whose end date is written without zero padding got
\* a rule that ends on that text
C28_Witness ==
    /\ validated = Some(TRUE)
    /\ eventData["end_date"] = <<"2", "0", "2", "6", "-", "2", "-", "3">>
    /\ recurringOut /= None /\ recurringOut[1].ok
    /\ Val(recurringOut[1])["recurrence"].rules[1]["end"] = <<"2", "0", "2", "6", "-", "2", "-",
                                                  "3">>

(* --- the dry run of the series creator, verbose or not ----------------------- *)

\* C30 as stated: what a dry run of create_recurring_event_series counts does not
\* depend on verbose: the events with a malformed recurrence_day, which a real run
\* rejects, are the failures, and the others the successes, whatever verbose is.
C30_DryRunIndependentOfVerbose ==
    (script = "series" /\ dryRun) =>
        LET taken == 1..(at - 1)
        IN  /\ failureCount = Cardinality({i \in taken : Malformed(Records[i])})
            /\ successCount = Cardinality({i \in taken : ~Malformed(Records[i])})

====
